---------------------------- MODULE MailPageProofs ----------------------------
(* The page keeps a draft, its counter and the operator's inputs, for every *)
(* set of emails and whatever the bounds are: PageInv is inductive.         *)
EXTENDS MailPageInvariants, SequenceTheorems, FiniteSetTheorems, WellFoundedInduction, TLAPS

-----------------------------------------------------------------------------
(* The calls that are out                                                   *)

\* Taking an element out of a sequence moves those behind it up by one.
LEMMA RemoveAtProperties ==
    ASSUME NEW S, NEW s \in Seq(S), NEW n \in DOMAIN s
    PROVE  /\ RemoveAt(s, n) \in Seq(S)
           /\ Len(RemoveAt(s, n)) = Len(s) - 1
           /\ \A i \in 1 .. Len(s) - 1 : RemoveAt(s, n)[i] = IF i < n THEN s[i] ELSE s[i + 1]
<1>. DEFINE a == SubSeq(s, 1, n - 1)
            b == SubSeq(s, n + 1, Len(s))
<1>1. n \in 1..Len(s) /\ Len(s) \in Nat /\ \A i \in 1..Len(s) : s[i] \in S
  BY LenProperties, ElementOfSeq
<1>2. /\ a \in Seq(S) /\ Len(a) = n - 1
      /\ \A i \in 1 .. n - 1 : a[i] = s[i]
  <2>1. 1 \in Int /\ n - 1 \in Int /\ \A i \in 1 .. n - 1 : s[i] \in S
    BY <1>1
  <2>2. /\ a \in Seq(S) /\ Len(a) = IF 1 <= n - 1 THEN n - 1 - 1 + 1 ELSE 0
        /\ \A i \in 1 .. n - 1 - 1 + 1 : a[i] = s[1 + i - 1]
    BY <2>1, SubSeqProperties
  <2>. QED
    BY <1>1, <2>2
<1>3. /\ b \in Seq(S) /\ Len(b) = Len(s) - n
      /\ \A i \in 1 .. Len(s) - n : b[i] = s[n + i]
  <2>1. n + 1 \in Int /\ Len(s) \in Int /\ \A i \in n + 1 .. Len(s) : s[i] \in S
    BY <1>1
  <2>2. /\ b \in Seq(S) /\ Len(b) = IF n + 1 <= Len(s) THEN Len(s) - (n + 1) + 1 ELSE 0
        /\ \A i \in 1 .. Len(s) - (n + 1) + 1 : b[i] = s[n + 1 + i - 1]
    BY <2>1, SubSeqProperties
  <2>. QED
    BY <1>1, <2>2
<1>4. /\ a \o b \in Seq(S)
      /\ Len(a \o b) = Len(a) + Len(b)
      /\ \A i \in 1 .. Len(a) + Len(b) :
           (a \o b)[i] = IF i <= Len(a) THEN a[i] ELSE b[i - Len(a)]
  BY <1>2, <1>3, ConcatProperties
<1>5. RemoveAt(s, n) = a \o b
  BY DEF RemoveAt
<1>. HIDE DEF a, b
<1>6. ASSUME NEW i \in 1 .. Len(s) - 1
      PROVE  (a \o b)[i] = IF i < n THEN s[i] ELSE s[i + 1]
  <2>1. CASE i < n
    BY <1>1, <1>2, <1>3, <1>4, <2>1
  <2>2. CASE ~(i < n)
    <3>0. i \in 1 .. Len(a) + Len(b) /\ ~(i <= Len(a))
      BY <1>1, <1>2, <1>3, <2>2
    <3>1. (a \o b)[i] = b[i - Len(a)]
      BY <1>4, <3>0
    <3>2. i - Len(a) \in 1 .. Len(s) - n /\ n + (i - Len(a)) = i + 1
      BY <1>1, <1>2, <2>2
    <3>. QED
      BY <1>3, <2>2, <3>1, <3>2
  <2>. QED
    BY <2>1, <2>2
<1>7. Len(a \o b) = Len(s) - 1
  BY <1>1, <1>2, <1>3, <1>4
<1>. QED
  BY <1>4, <1>5, <1>6, <1>7

\* A set of numbers has a least one.
LEMMA SmallestNat ==
    ASSUME NEW T, T \subseteq Nat, T # {}
    PROVE  \E x \in T : \A y \in T : x <= y
<1>. DEFINE R == {ss \in Nat \X Nat : ss[1] < ss[2]}
<1>1. IsWellFoundedOn(R, Nat)
  BY NatLessThanWellFounded DEF OpToRel
<1>2. PICK x \in T : \A y \in T : <<y, x>> \notin R
  <2>. HIDE DEF R
  <2>. QED
    BY <1>1, WFMin
<1>3. ASSUME NEW y \in T PROVE x <= y
  <2>1. <<y, x>> \notin R /\ x \in Nat /\ y \in Nat
    BY <1>2
  <2>2. ~(y < x)
    BY <2>1
  <2>. QED
    BY <2>1, <2>2
<1>. QED
  BY <1>3

\* If taking out either of two elements leaves the same, the two are equal: all between them are.
LEMMA RemovedAreEqual ==
    ASSUME NEW S, NEW s \in Seq(S), NEW m \in DOMAIN s, NEW n \in DOMAIN s, m <= n,
           RemoveAt(s, m) = RemoveAt(s, n)
    PROVE  s[m] = s[n]
<1>1. m \in 1..Len(s) /\ n \in 1..Len(s) /\ Len(s) \in Nat
  BY LenProperties
<1>2. ASSUME NEW i \in m .. n - 1 PROVE s[i + 1] = s[i]
  <2>1. i \in 1 .. Len(s) - 1 /\ ~(i < m) /\ i < n
    BY <1>1
  <2>2. RemoveAt(s, m)[i] = s[i + 1]
    BY <2>1, RemoveAtProperties
  <2>3. RemoveAt(s, n)[i] = s[i]
    BY <2>1, RemoveAtProperties
  <2>. QED
    BY <2>2, <2>3
<1>. DEFINE Others == {i \in m..n : s[i] # s[m]}
<1>3. SUFFICES ASSUME s[n] # s[m] PROVE FALSE
  OBVIOUS
<1>4. Others # {} /\ Others \subseteq Nat
  BY <1>1, <1>3
<1>5. PICK i \in Others : \A j \in Others : i <= j
  BY <1>4, SmallestNat
<1>6. i > m /\ i \in m..n
  BY <1>1, <1>5
<1>7. i - 1 \in m .. n - 1 /\ i - 1 \in m..n /\ i - 1 \in Nat /\ i - 1 < i /\ (i - 1) + 1 = i
  BY <1>1, <1>6
<1>8. s[i - 1] = s[m]
  BY <1>5, <1>7
<1>9. s[i] = s[i - 1]
  BY <1>2, <1>7
<1>. QED
  BY <1>5, <1>8, <1>9

-----------------------------------------------------------------------------
(* The counter of unread emails                                             *)

LEMMA ListType ==
    ASSUME NEW list
    PROVE  list \in Lists <=>
             DOMAIN list \subseteq Tasks /\ list \in [DOMAIN list -> Items]
BY DEF Lists

LEMMA UnreadIsANumber ==
    ASSUME NEW list \in Lists
    PROVE  /\ UnreadIn(list) \in Nat
           /\ IsFiniteSet({t \in DOMAIN list : ~list[t].read})
<1>1. {t \in DOMAIN list : ~list[t].read} \in SUBSET Tasks
  BY ListType
<1>. QED
  BY <1>1, PageAssumption, FS_Subset, FS_CardinalityType DEF UnreadIn

\* Only what is read counts.
LEMMA UnreadOfTheSame ==
    ASSUME NEW a, NEW b, DOMAIN a = DOMAIN b,
           \A t \in DOMAIN a : a[t].read = b[t].read
    PROVE  UnreadIn(a) = UnreadIn(b)
<1>1. {t \in DOMAIN a : ~a[t].read} = {t \in DOMAIN b : ~b[t].read}
  OBVIOUS
<1>. QED
  BY <1>1 DEF UnreadIn

\* Marking an email moves the number by one, unless the mark was there.
LEMMA UnreadMarked ==
    ASSUME NEW list \in Lists, NEW t \in DOMAIN list, NEW value \in BOOLEAN,
           list[t].read = ~value
    PROVE  LET marked == [list EXCEPT ![t].read = value]
           IN  /\ marked \in Lists /\ DOMAIN marked = DOMAIN list
               /\ \A u \in DOMAIN list : /\ marked[u].text = list[u].text
                                         /\ marked[u].status = list[u].status
               /\ UnreadIn(marked) = IF value THEN UnreadIn(list) - 1 ELSE UnreadIn(list) + 1
               /\ value => UnreadIn(list) > 0
<1>. DEFINE marked == [list EXCEPT ![t].read = value]
            U == {u \in DOMAIN list : ~list[u].read}
            V == {u \in DOMAIN marked : ~marked[u].read}
<1>1. DOMAIN list \subseteq Tasks /\ list \in [DOMAIN list -> Items]
  BY ListType
<1>2. /\ marked \in [DOMAIN list -> Items] /\ DOMAIN marked = DOMAIN list
      /\ \A u \in DOMAIN list : /\ marked[u].text = list[u].text
                                /\ marked[u].status = list[u].status
                                /\ marked[u].read = IF u = t THEN value ELSE list[u].read
  BY <1>1 DEF Items
<1>3. marked \in Lists
  BY <1>1, <1>2, ListType
<1>4. IsFiniteSet(U) /\ IsFiniteSet(V) /\ Cardinality(U) \in Nat /\ Cardinality(V) \in Nat
  BY <1>3, UnreadIsANumber DEF UnreadIn
<1>5. CASE value
  <2>1. V = U \ {t} /\ t \in U
    BY <1>2, <1>5
  <2>2. Cardinality(V) = Cardinality(U) - 1
    <3>. HIDE DEF U, V
    <3>1. Cardinality(U \ {t}) = Cardinality(U) - 1
      BY <1>4, <2>1, FS_RemoveElement
    <3>. QED
      BY <2>1, <3>1
  <2>3. Cardinality(U) > 0
    BY <1>4, <2>2
  <2>. QED
    BY <1>2, <1>3, <1>5, <2>2, <2>3 DEF UnreadIn
<1>6. CASE ~value
  <2>1. V = U \cup {t} /\ t \notin U
    BY <1>2, <1>6
  <2>2. Cardinality(V) = Cardinality(U) + 1
    BY <1>4, <2>1, FS_AddElement
  <2>. QED
    BY <1>2, <1>3, <1>6, <2>2 DEF UnreadIn
<1>. QED
  BY <1>5, <1>6

\* An email that leaves the list is no longer counted in it.
LEMMA UnreadWithout ==
    ASSUME NEW list \in Lists, NEW t
    PROVE  LET rest == Restrict(list, DOMAIN list \ {t})
           IN  /\ rest \in Lists /\ DOMAIN rest = DOMAIN list \ {t}
               /\ \A u \in DOMAIN rest : rest[u] = list[u]
               /\ UnreadIn(list) =
                    UnreadIn(rest) + IF t \in DOMAIN list /\ ~list[t].read THEN 1 ELSE 0
<1>. DEFINE rest == Restrict(list, DOMAIN list \ {t})
            U == {u \in DOMAIN list : ~list[u].read}
            V == {u \in DOMAIN rest : ~rest[u].read}
<1>1. DOMAIN list \subseteq Tasks /\ list \in [DOMAIN list -> Items]
  BY ListType
<1>2. DOMAIN rest = DOMAIN list \ {t} /\ \A u \in DOMAIN rest : rest[u] = list[u]
  BY DEF Restrict
<1>3. rest \in Lists
  <2>1. rest \in [DOMAIN rest -> Items]
    BY <1>1, <1>2 DEF Restrict
  <2>. QED
    BY <1>1, <1>2, <2>1, ListType
<1>4. IsFiniteSet(U) /\ Cardinality(U) \in Nat /\ Cardinality(V) \in Nat
  BY <1>3, UnreadIsANumber DEF UnreadIn
<1>5. V = U \ {t}
  BY <1>2
<1>6. UnreadIn(list) = Cardinality(U) /\ UnreadIn(rest) = Cardinality(V)
  BY DEF UnreadIn
<1>7. Cardinality(U) = Cardinality(V) + IF t \in DOMAIN list /\ ~list[t].read THEN 1 ELSE 0
  <2>1. CASE t \in DOMAIN list /\ ~list[t].read
    <3>1. t \in U
      BY <2>1
    <3>. HIDE DEF U, V
    <3>2. Cardinality(V) = Cardinality(U) - 1
      BY <1>4, <1>5, <3>1, FS_RemoveElement
    <3>. QED
      BY <1>4, <2>1, <3>2
  <2>2. CASE ~(t \in DOMAIN list /\ ~list[t].read)
    <3>1. V = U
      BY <1>5, <2>2
    <3>. HIDE DEF U, V
    <3>. QED
      BY <1>4, <2>2, <3>1
  <2>. QED
    BY <2>1, <2>2
<1>8. UnreadIn(list) = UnreadIn(rest) + IF t \in DOMAIN list /\ ~list[t].read THEN 1 ELSE 0
  <2>. HIDE DEF U, V, rest
  <2>. QED
    BY <1>6, <1>7
<1>. QED
  BY <1>2, <1>3, <1>8

-----------------------------------------------------------------------------
(* What the inputs show                                                     *)

LEMMA ObjectOf ==
    ASSUME NEW t \in Tasks
    PROVE  /\ Object(t) \in Objects /\ Object(t) # NoObject
           /\ Object(t).task = t /\ Object(t).live
BY PageAssumption DEF Object, NoObject, Objects, NoneOr, Texts

LEMMA NoObjectOf ==
    /\ NoObject \in Objects /\ NoObject.task = NoTask /\ ~NoObject.live
    /\ Frozen(NoObject) = NoObject
BY PageAssumption DEF NoObject, Objects, NoneOr, Texts, Frozen

\* An object that is replaced keeps its email and its text.
LEMMA FrozenKeeps ==
    ASSUME NEW o \in Objects, emails \in Lists, o.live => o.task \in DOMAIN emails
    PROVE  /\ Frozen(o) \in Objects
           /\ ~Frozen(o).live
           /\ Frozen(o).task = o.task
           /\ Frozen(o).text = TextIn(o)
           /\ TextIn(o) \in Texts
           /\ o.task # NoTask => Frozen(o) # NoObject
<1>1. emails \in [DOMAIN emails -> Items]
  BY ListType
<1>2. TextIn(o) \in Texts /\ StatusOf(o) \in {"review", "other"}
  BY <1>1 DEF TextIn, StatusOf, Items, Objects
<1>3. CASE o.live
  BY <1>2, <1>3 DEF Frozen, Objects, NoObject
<1>4. CASE ~o.live
  BY <1>2, <1>4 DEF Frozen, Objects, NoObject, TextIn
<1>. QED
  BY <1>3, <1>4

\* The chat of an email in the list is bound to it, or shows no inputs.
LEMMA ChatOfProperties ==
    ASSUME NEW list, NEW t, DOMAIN list \subseteq Tasks
    PROVE  /\ ChatOf(t, list) \in Objects
           /\ ChatOf(t, list).live => ChatOf(t, list).task = t /\ t \in DOMAIN list
           /\ ~ChatOf(t, list).live => ChatOf(t, list) = NoObject
           /\ ChatOf(t, list).task = NoTask => ChatOf(t, list) = NoObject
BY ObjectOf, NoObjectOf, PageAssumption DEF ChatOf

-----------------------------------------------------------------------------
(* The page as it opens                                                     *)

LEMMA PageInvInit == Init => PageInv
<1>. SUFFICES ASSUME Init PROVE PageInv
  OBVIOUS
<1>1. server \in [Tasks -> Rows]
  BY PageAssumption DEF Init, Rows
<1>2. emails \in Lists /\ DOMAIN emails = Tasks
  <2>1. \A t \in Tasks : server[t] \in Rows
    BY <1>1
  <2>2. emails \in [Tasks -> Items]
    BY <2>1, PageAssumption DEF Init, Rows, Items, Texts
  <2>. QED
    BY <2>2, ListType
<1>3. unread \in Nat
  BY <1>2, UnreadIsANumber DEF Init
<1>4. loads \in Seq(Calls) /\ marks \in Seq(Marks) /\ DOMAIN marks = {}
  BY EmptySeq DEF Init
<1>5. TypeOK
  <2>1. /\ cache \in [Tasks -> Texts] /\ typed \in [Tasks -> Texts]
        /\ atLoad \in [Tasks -> Texts] /\ events \in 0..MaxEvents
    BY PageAssumption DEF Init, Texts
  <2>2. /\ selected \in NoneOr /\ card \in NoneOr /\ post \in Posts
        /\ tab \in {"emails", "chat"} /\ shadowed \subseteq Tasks
        /\ editing \in BOOLEAN /\ pending \in BOOLEAN /\ skewed \in BOOLEAN
        /\ closing \in Posts /\ archived \subseteq Tasks /\ forms \subseteq Tasks
        /\ reply \in ReplyStates /\ gone \in Nat /\ header \in Headers
    BY <1>3 DEF Init, NoneOr, Posts, Headers, ReplyStates
  <2>3. /\ chat \in Objects /\ timer \in Objects
        /\ \A o \in {chat, timer} : o.live => o.task \in DOMAIN emails
    BY NoObjectOf DEF Init
  <2>. QED
    BY <1>1, <1>2, <1>3, <1>4, <2>1, <2>2, <2>3 DEF TypeOK
<1>6. DraftKept /\ ListIsRecent
  BY <1>2 DEF Init, DraftKept, ListIsRecent
<1>7. CounterCounts
  <2>1. UnreadIn(emails) \in Nat
    BY <1>2, UnreadIsANumber
  <2>. QED
    BY <2>1 DEF Init, CounterCounts
<1>. QED
  BY <1>5, <1>6, <1>7 DEF Init, PageInv, InputsBound, DraftShown

-----------------------------------------------------------------------------
(* A list that comes in                                                     *)

\* What Show does to the inputs: they are bound to an object that is no longer live, to one of
\* the new list, or they are not there.
LEMMA ShowBinds ==
    ASSUME PageInv, NEW call \in Calls, NEW rows, NEW shown \in NoneOr, DOMAIN rows \subseteq Tasks,
           Show(call, rows, shown), tab' = tab
    PROVE  /\ \/ chat' = Frozen(chat) /\ editing' = editing
              \/ tab = "chat" /\ chat' = ChatOf(call.prev, rows) /\ editing' = FALSE
              \/ chat = NoObject /\ chat' = NoObject /\ editing' = FALSE
           /\ selected' \in NoneOr /\ card' \in NoneOr
           /\ pending' \in BOOLEAN /\ editing' \in BOOLEAN
<1>1. /\ call.prev \in NoneOr /\ call.post \in BOOLEAN /\ tab \in {"emails", "chat"}
      /\ selected \in NoneOr /\ card \in NoneOr /\ NoTask \in NoneOr
      /\ pending \in BOOLEAN /\ editing \in BOOLEAN
      /\ \A t \in Tasks : t \in NoneOr
  BY DEF PageInv, TypeOK, Calls, NoneOr
<1>2. tab = "emails" => chat = NoObject /\ editing = FALSE
  BY <1>1 DEF PageInv, InputsBound
<1>3. CASE call.post
  BY <1>1, <1>2, <1>3 DEF Show, ShowAfterPost
<1>4. CASE ~call.post
  <2>1. ShowAfterRefresh(call.prev, rows, shown)
    BY <1>4 DEF Show
  <2>2. CASE Protected
    BY <1>1, <2>1, <2>2 DEF ShowAfterRefresh, ProtectedNow
  <2>3. CASE ~Protected /\ tab = "chat"
    BY <1>1, <2>1, <2>3 DEF ShowAfterRefresh, ProtectedNow
  <2>4. CASE ~Protected /\ tab = "emails"
    BY <1>1, <1>2, <2>1, <2>4 DEF ShowAfterRefresh, ProtectedNow
  <2>. QED
    BY <1>1, <2>2, <2>3, <2>4
<1>. QED
  BY <1>3, <1>4

\* What becomes of the use of a reply field.
LEMMA ReplyKept ==
    ASSUME PageInv, CardReplaced \/ UNCHANGED reply \/ reply' = ReplyLeft
    PROVE  reply' \in ReplyStates
BY DEF PageInv, TypeOK, CardReplaced, ReplyLeft, ReplyStates

LEMMA ListReplaced ==
    ASSUME PageInv, NEW list \in Lists, \A t \in DOMAIN list : list[t].text = cache[t],
           NEW call \in Calls, NEW rows, DOMAIN rows = DOMAIN list, NEW shown \in NoneOr,
           Replace(list), Show(call, rows, shown),
           NEW failed \in BOOLEAN, TotalShown(rows, call.post, failed),
           UNCHANGED <<server, archived, tab, forms, post, closing, typed, shadowed>>,
           loads' \in Seq(Calls), events' \in 0..MaxEvents, reply' \in ReplyStates
    PROVE  PageInv'
<1>1. DOMAIN list \subseteq Tasks /\ list \in [DOMAIN list -> Items]
  BY ListType
<1>2. cache' = cache /\ emails' = list /\ atLoad' = typed /\ skewed' = FALSE
  <2>1. cache \in [Tasks -> Texts]
    BY DEF PageInv, TypeOK
  <2>. QED
    BY <2>1 DEF Replace
<1>3. unread' = UnreadIn(list) /\ unread' \in Nat
  BY UnreadIsANumber DEF Replace, Recounted
<1>4. /\ timer' = Frozen(timer) /\ timer' \in Objects /\ ~timer'.live
      /\ timer'.task = NoTask => timer' = NoObject
  <2>1. /\ timer \in Objects /\ emails \in Lists
        /\ timer.live => timer.task \in DOMAIN emails
        /\ timer.task = NoTask => timer = NoObject
    BY DEF PageInv, TypeOK, InputsBound
  <2>. QED
    BY <2>1, FrozenKeeps, NoObjectOf DEF Replace
<1>5. marks' \in Seq(Marks) /\ \A n \in DOMAIN marks' : ~marks'[n].live
  <2>1. /\ marks \in [1..Len(marks) -> Marks] /\ Len(marks) \in Nat
        /\ DOMAIN marks = 1..Len(marks)
    BY LenProperties DEF PageInv, TypeOK
  <2>2. marks' = [m \in 1..Len(marks) |-> [marks[m] EXCEPT !.live = FALSE]]
    BY <2>1 DEF Replace
  <2>3. \A m \in 1..Len(marks) : /\ [marks[m] EXCEPT !.live = FALSE] \in Marks
                                 /\ ~[marks[m] EXCEPT !.live = FALSE].live
    BY <2>1 DEF Marks
  <2>4. marks' \in [1..Len(marks) -> Marks]
    BY <2>2, <2>3
  <2>5. marks' \in Seq(Marks)
    BY <2>1, <2>4, SeqDef
  <2>. QED
    BY <2>2, <2>3, <2>5
<1>6. /\ \/ chat' = Frozen(chat) /\ editing' = editing
         \/ tab = "chat" /\ chat' = ChatOf(call.prev, rows) /\ editing' = FALSE
         \/ chat = NoObject /\ chat' = NoObject /\ editing' = FALSE
      /\ selected' \in NoneOr /\ card' \in NoneOr
      /\ pending' \in BOOLEAN /\ editing' \in BOOLEAN
  BY <1>1, ShowBinds
<1>7. /\ chat' \in Objects
      /\ chat'.live => chat'.task \in DOMAIN list
      /\ chat'.task = NoTask => chat' = NoObject
      /\ tab = "emails" => chat' = NoObject
      /\ editing' => chat' # NoObject
      /\ chat' # NoObject =>
           \/ TextIn(chat)' >= typed[chat'.task]
           \/ chat'.task \in shadowed
  <2>1. /\ chat \in Objects /\ emails \in Lists
        /\ chat.live => chat.task \in DOMAIN emails
        /\ chat.task = NoTask => chat = NoObject
        /\ tab = "emails" => chat = NoObject
        /\ editing => chat # NoObject
        /\ chat # NoObject => TextIn(chat) >= typed[chat.task] \/ chat.task \in shadowed
    BY DEF PageInv, TypeOK, InputsBound, DraftShown
  <2>2. CASE chat' = Frozen(chat) /\ editing' = editing
    <3>1. /\ chat' \in Objects /\ ~chat'.live /\ chat'.task = chat.task
          /\ chat'.text = TextIn(chat)
          /\ chat.task # NoTask => chat' # NoObject
      BY <2>1, <2>2, FrozenKeeps
    <3>2. TextIn(chat)' = TextIn(chat)
      BY <3>1 DEF TextIn
    <3>3. chat = NoObject <=> chat' = NoObject
      BY <2>1, <2>2, <3>1, NoObjectOf
    <3>4. chat'.task = NoTask => chat' = NoObject
      BY <2>1, <3>1, <3>3
    <3>5. chat' # NoObject => TextIn(chat)' >= typed[chat'.task] \/ chat'.task \in shadowed
      BY <2>1, <3>1, <3>2, <3>3
    <3>. QED
      BY <2>1, <2>2, <3>1, <3>3, <3>4, <3>5
  <2>3. CASE tab = "chat" /\ chat' = ChatOf(call.prev, rows) /\ editing' = FALSE
    <3>1. /\ chat' \in Objects
          /\ chat'.live => chat'.task \in DOMAIN list
          /\ ~chat'.live => chat' = NoObject
          /\ chat'.task = NoTask => chat' = NoObject
      BY <1>1, <2>3, ChatOfProperties
    <3>2. ASSUME chat' # NoObject
          PROVE  TextIn(chat)' >= typed[chat'.task] \/ chat'.task \in shadowed
      <4>1. chat'.live /\ chat'.task \in DOMAIN list
        BY <3>1, <3>2
      <4>2. TextIn(chat)' = cache[chat'.task]
        BY <1>2, <4>1 DEF TextIn
      <4>. QED
        BY <1>1, <4>1, <4>2 DEF PageInv, DraftKept
    <3>. QED
      BY <2>3, <3>1, <3>2
  <2>4. CASE chat = NoObject /\ chat' = NoObject /\ editing' = FALSE
    BY <2>4, NoObjectOf
  <2>. QED
    BY <1>6, <2>2, <2>3, <2>4
<1>13. /\ header' \in Headers /\ gone' = 0
       /\ header'.of = "unread" => header'.n = unread'
  <2>1. Cardinality(DOMAIN rows) \in Nat
    BY <1>1, PageAssumption, FS_Subset, FS_CardinalityType
  <2>2. gone' = 0
    BY DEF Replace
  <2>. QED
    BY <1>3, <2>1, <2>2 DEF TotalShown, UnreadShown, Headers
<1>8. TypeOK'
  BY <1>2, <1>3, <1>4, <1>5, <1>6, <1>7, <1>13 DEF PageInv, TypeOK
<1>9. InputsBound' /\ DraftShown'
  BY <1>4, <1>7 DEF InputsBound, DraftShown
<1>10. DraftKept'
  BY <1>2 DEF PageInv, DraftKept
<1>11. ListIsRecent'
  BY <1>1, <1>2 DEF PageInv, DraftKept, ListIsRecent
<1>12. CounterCounts'
  <2>1. UnreadIn(emails)' = UnreadIn(list) /\ UnreadIn(list) \in Nat
    BY <1>2, UnreadIsANumber DEF UnreadIn
  <2>. QED
    BY <1>3, <1>13, <2>1 DEF CounterCounts
<1>. QED
  BY <1>8, <1>9, <1>10, <1>11, <1>12 DEF PageInv

LEMMA ApplyKeeps ==
    ASSUME PageInv, Apply
    PROVE  PageInv'
<1>1. PICK n \in DOMAIN loads :
        /\ loads[n].answered
        /\ loads' = RemoveAt(loads, n)
        /\ Replace(Normalized(loads[n].rows)) /\ TotalShown(loads[n].rows, loads[n].post, FALSE)
        /\ Show(loads[n], loads[n].rows, card)
        /\ CardReplaced \/ UNCHANGED reply
  BY DEF Apply, Counts
<1>2. loads \in Seq(Calls) /\ cache \in [Tasks -> Texts] /\ card \in NoneOr
  BY DEF PageInv, TypeOK
<1>. DEFINE rows == loads[n].rows
            list == Normalized(rows)
<1>3. /\ loads' \in Seq(Calls) /\ loads[n] \in Calls
      /\ DOMAIN rows \subseteq Tasks /\ rows \in [DOMAIN rows -> Rows]
  <2>1. loads[n] \in Calls
    BY <1>2, LenProperties, ElementOfSeq
  <2>2. loads' \in Seq(Calls)
    BY <1>1, <1>2, RemoveAtProperties
  <2>3. PICK listed \in SUBSET Tasks : rows \in [listed -> Rows]
    BY <1>1, <2>1 DEF Calls
  <2>. QED
    BY <2>1, <2>2, <2>3
<1>4. /\ DOMAIN list = DOMAIN rows /\ list \in Lists
      /\ \A t \in DOMAIN list : list[t].text = cache[t]
  <2>1. /\ DOMAIN list = DOMAIN rows
        /\ \A t \in DOMAIN rows : list[t] = [status |-> rows[t].status, read |-> rows[t].read,
                                             text |-> cache[t]]
    BY DEF Normalized
  <2>2. \A t \in DOMAIN rows : rows[t] \in Rows /\ cache[t] \in Texts
    BY <1>2, <1>3
  <2>3. list \in [DOMAIN rows -> Items]
    BY <2>2 DEF Rows, Items, Normalized
  <2>4. list \in Lists
    BY <1>3, <2>1, <2>3, ListType
  <2>5. \A t \in DOMAIN list : list[t].text = cache[t]
    BY DEF Normalized
  <2>. HIDE DEF list, rows
  <2>. QED
    BY <2>1, <2>4, <2>5
<1>5. /\ events' \in 0..MaxEvents /\ FALSE \in BOOLEAN
      /\ UNCHANGED <<server, archived, tab, forms, post, closing, typed, shadowed>>
  BY DEF Apply, PageInv, TypeOK, database
<1>6. reply' \in ReplyStates
  BY <1>1, ReplyKept
<1>. HIDE DEF list
<1>. QED
  BY <1>1, <1>2, <1>3, <1>4, <1>5, <1>6, ListReplaced DEF list

LEMMA EventCounted ==
    ASSUME PageInv, Event
    PROVE  events' \in 0..MaxEvents
BY PageAssumption DEF PageInv, TypeOK, Event

LEMMA LoadFailsKeeps ==
    ASSUME PageInv, LoadFails
    PROVE  PageInv'
<1>1. PICK n \in DOMAIN loads :
        /\ loads' = RemoveAt(loads, n)
        /\ Replace(<<>>) /\ TotalShown(<<>>, loads[n].post, TRUE)
        /\ Show(loads[n], <<>>, NoTask)
  BY DEF LoadFails
<1>2. loads \in Seq(Calls)
  BY DEF PageInv, TypeOK
<1>3. loads' \in Seq(Calls) /\ loads[n] \in Calls
  BY <1>1, <1>2, LenProperties, ElementOfSeq, RemoveAtProperties
<1>4. <<>> \in Lists /\ DOMAIN <<>> = {}
  <2>1. DOMAIN <<>> = {} /\ <<>> \in [{} -> Items]
    OBVIOUS
  <2>. QED
    BY <2>1, ListType
<1>5. NoTask \in NoneOr
  BY DEF NoneOr
<1>6. /\ events' \in 0..MaxEvents /\ TRUE \in BOOLEAN
      /\ UNCHANGED <<server, archived, tab, forms, post, closing, typed, shadowed>>
  BY EventCounted DEF LoadFails, database
<1>7. reply' \in ReplyStates
  BY ReplyKept DEF LoadFails
<1>. QED
  BY <1>1, <1>3, <1>4, <1>5, <1>6, <1>7, ListReplaced

-----------------------------------------------------------------------------
(* Lists that are asked for                                                 *)

LEMMA CallsStay ==
    ASSUME PageInv, loads' \in Seq(Calls), pending' \in BOOLEAN, Unmoved
    PROVE  PageInv'
<1>1. TypeOK'
  BY DEF PageInv, TypeOK, Unmoved, history, database, counter, replies
<1>2. InputsBound' /\ DraftKept' /\ ListIsRecent' /\ CounterCounts'
  BY DEF PageInv, InputsBound, DraftKept, ListIsRecent, CounterCounts, UnreadIn, Unmoved, history,
     database, counter, replies
<1>3. DraftShown'
  BY DEF PageInv, DraftShown, TextIn, Unmoved, history, database, counter, replies
<1>. QED
  BY <1>1, <1>2, <1>3 DEF PageInv

LEMMA RefreshCalledKeeps ==
    ASSUME PageInv, RefreshCalled, Unmoved
    PROVE  PageInv'
<1>1. loads \in Seq(Calls) /\ selected \in NoneOr
  BY DEF PageInv, TypeOK
<1>2. ListCall(selected, FALSE) \in Calls
  BY <1>1 DEF ListCall, Calls
<1>3. pending' \in BOOLEAN
  BY DEF RefreshCalled
<1>4. loads' \in Seq(Calls)
  <2>1. Append(loads, ListCall(selected, FALSE)) \in Seq(Calls)
    BY <1>1, <1>2, AppendProperties
  <2>. QED
    BY <1>1, <2>1 DEF RefreshCalled
<1>. QED
  BY <1>3, <1>4, CallsStay

LEMMA ServerListsKeeps ==
    ASSUME PageInv, ServerLists
    PROVE  PageInv'
<1>1. loads \in Seq(Calls) /\ server \in [Tasks -> Rows] /\ pending' \in BOOLEAN
  BY DEF PageInv, TypeOK, ServerLists
<1>2. PICK n \in DOMAIN loads :
        /\ ~loads[n].answered
        /\ loads' = [loads EXCEPT ![n].answered = TRUE, ![n].rows = Listed]
  BY DEF ServerLists
<1>. DEFINE call == [loads[n] EXCEPT !.answered = TRUE, !.rows = Listed]
<1>3. n \in 1..Len(loads) /\ loads[n] \in Calls
  BY <1>1, <1>2, LenProperties, ElementOfSeq
<1>4. call \in Calls
  <2>1. Tasks \ archived \in SUBSET Tasks /\ Listed \in [Tasks \ archived -> Rows]
    BY <1>1 DEF Listed, Restrict
  <2>2. Listed \in UNION {[listed -> Rows] : listed \in SUBSET Tasks}
    BY <2>1
  <2>. HIDE DEF Rows
  <2>. QED
    BY <1>1, <1>2, <1>3, <2>2 DEF Calls
<1>5. loads' = [loads EXCEPT ![n] = call]
  BY <1>2
<1>6. loads' \in Seq(Calls)
  BY <1>1, <1>3, <1>4, <1>5, ExceptSeq
<1>. QED
  BY <1>1, <1>6, CallsStay DEF ServerLists

-----------------------------------------------------------------------------
(* Clicks                                                                   *)

\* Leaving an input stores what it shows.
LEMMA LeaveInputKeeps ==
    ASSUME PageInv, LeaveInput
    PROVE  /\ cache' \in [Tasks -> Texts] /\ editing' = FALSE
           /\ \A t \in Tasks : cache'[t] >= typed[t] \/ t \in shadowed
<1>1. /\ chat \in Objects /\ emails \in Lists /\ cache \in [Tasks -> Texts]
      /\ chat.live => chat.task \in DOMAIN emails
      /\ editing' = FALSE
  BY DEF PageInv, TypeOK, LeaveInput
<1>2. CASE editing
  <2>1. chat # NoObject /\ chat.task \in Tasks
    BY <1>1, <1>2 DEF PageInv, InputsBound, Objects, NoneOr
  <2>2. TextIn(chat) >= typed[chat.task] \/ chat.task \in shadowed
    BY <2>1 DEF PageInv, DraftShown
  <2>3. TextIn(chat) \in Texts
    BY <1>1, FrozenKeeps
  <2>4. cache' = [cache EXCEPT ![chat.task] = TextIn(chat)]
    BY <1>2 DEF LeaveInput
  <2>5. /\ cache' \in [Tasks -> Texts]
        /\ \A t \in Tasks : cache'[t] = IF t = chat.task THEN TextIn(chat) ELSE cache[t]
    BY <1>1, <2>1, <2>3, <2>4
  <2>6. \A t \in Tasks : cache'[t] >= typed[t] \/ t \in shadowed
    BY <2>1, <2>2, <2>5 DEF PageInv, DraftKept
  <2>. QED
    BY <1>1, <2>5, <2>6
<1>3. CASE ~editing
  BY <1>1, <1>3 DEF LeaveInput, PageInv, DraftKept
<1>. QED
  BY <1>1, <1>2, <1>3 DEF PageInv, TypeOK

\* A mark on an email is not seen in the inputs.
LEMMA MarksAreNotTexts ==
    ASSUME PageInv, emails' \in Lists, DOMAIN emails' = DOMAIN emails,
           \A t \in DOMAIN emails : emails'[t].text = emails[t].text,
           UNCHANGED <<chat, typed, atLoad, gone, shadowed>>
    PROVE  DraftShown' /\ ListIsRecent'
<1>1. chat.live => chat.task \in DOMAIN emails
  BY DEF PageInv, TypeOK
<1>2. TextIn(chat)' = TextIn(chat)
  BY <1>1 DEF TextIn
<1>. QED
  BY <1>2 DEF PageInv, DraftShown, ListIsRecent

LEMMA SelectEmailKeeps ==
    ASSUME PageInv, NEW t \in Tasks, SelectEmail(t)
    PROVE  PageInv'
<1>1. t \in DOMAIN emails /\ emails \in Lists /\ unread \in Nat /\ marks \in Seq(Marks)
  BY DEF PageInv, TypeOK, SelectEmail
<1>2. /\ emails' \in Lists /\ DOMAIN emails' = DOMAIN emails
      /\ \A u \in DOMAIN emails : emails'[u].text = emails[u].text
      /\ CounterCounts' /\ unread' \in Nat /\ header' \in Headers
      /\ marks' \in Seq(Marks)
      /\ \A n \in DOMAIN marks' : marks'[n].live => marks'[n].task \in DOMAIN emails
  <2>1. CASE emails[t].read
    BY <1>1, <2>1 DEF SelectEmail, PageInv, TypeOK, CounterCounts, UnreadIn, history,
     database, counter, replies
  <2>2. CASE ~emails[t].read
    <3>1. /\ emails' = [emails EXCEPT ![t].read = TRUE]
          /\ unread' = Minus1(unread) /\ header' = [of |-> "unread", n |-> unread']
          /\ marks' = Append(marks, [task |-> t, value |-> TRUE, live |-> TRUE])
          /\ skewed' = skewed /\ gone' = gone
      BY <2>2 DEF SelectEmail, Mark, UnreadShown, history, database, counter, replies
    <3>2. /\ emails' \in Lists /\ DOMAIN emails' = DOMAIN emails
          /\ \A u \in DOMAIN emails : emails'[u].text = emails[u].text
          /\ UnreadIn(emails') = UnreadIn(emails) - 1 /\ UnreadIn(emails) > 0
      <4>1. emails[t].read = ~TRUE
        <5>1. emails[t] \in Items
          BY <1>1, ListType
        <5>. QED
          BY <2>2, <5>1 DEF Items
      <4>. QED
        BY <1>1, <3>1, <4>1, UnreadMarked
    <3>3. /\ unread' \in Nat
          /\ unread = UnreadIn(emails) + gone => unread' = UnreadIn(emails') + gone
      <4>1. gone \in Nat /\ UnreadIn(emails) \in Nat /\ UnreadIn(emails') \in Nat
        BY <1>1, <3>2, UnreadIsANumber DEF PageInv, TypeOK
      <4>. QED
        BY <1>1, <3>1, <3>2, <4>1 DEF Minus1
    <3>4. CounterCounts'
      <4>1. skewed \/ unread = UnreadIn(emails) + gone
        BY DEF PageInv, CounterCounts
      <4>2. UnreadIn(emails)' = UnreadIn(emails')
        BY DEF UnreadIn
      <4>. QED
        BY <3>1, <3>3, <4>1, <4>2 DEF CounterCounts
    <3>5. [task |-> t, value |-> TRUE, live |-> TRUE] \in Marks
      BY DEF Marks
    <3>6. /\ marks' \in Seq(Marks)
          /\ \A n \in DOMAIN marks' : \/ n \in DOMAIN marks /\ marks'[n] = marks[n]
                                      \/ marks'[n].task = t
      BY <1>1, <3>1, <3>5, AppendProperties, LenProperties
    <3>7. \A n \in DOMAIN marks : marks[n].live => marks[n].task \in DOMAIN emails
      BY DEF PageInv, TypeOK
    <3>8. header' \in Headers
      BY <3>1, <3>3 DEF Headers
    <3>. QED
      BY <1>1, <3>2, <3>3, <3>4, <3>6, <3>7, <3>8
  <2>. QED
    BY <2>1, <2>2
<1>3. cache' \in [Tasks -> Texts] /\ DraftKept' /\ editing' = FALSE
  BY LeaveInputKeeps DEF SelectEmail, Click, history, DraftKept, database, counter, replies
<1>4. DraftShown' /\ ListIsRecent'
  BY <1>2, MarksAreNotTexts DEF SelectEmail, history, database, counter, replies
<1>5. timer' = Object(t) /\ selected' = t /\ card' = NoTask /\ events' \in 0..MaxEvents
  BY EventCounted DEF SelectEmail, Click
<1>6. InputsBound'
  BY <1>3, <1>5, ObjectOf, PageAssumption DEF SelectEmail, PageInv, InputsBound
<1>7. TypeOK'
  <2>1. timer' \in Objects /\ (timer'.live => timer'.task \in DOMAIN emails')
    BY <1>1, <1>2, <1>5, ObjectOf
  <2>2. /\ selected' \in NoneOr /\ card' \in NoneOr /\ editing' \in BOOLEAN
        /\ reply' \in ReplyStates
    BY <1>3, <1>5, ReplyKept DEF NoneOr, SelectEmail, Click
  <2>3. UNCHANGED <<server, archived, tab, chat, forms, pending, loads, post, closing,
                    typed, atLoad, gone, skewed, shadowed>>
    BY DEF SelectEmail, history, database, counter, replies
  <2>. QED
    BY <1>2, <1>3, <1>5, <2>1, <2>2, <2>3 DEF PageInv, TypeOK
<1>. QED
  BY <1>2, <1>3, <1>4, <1>6, <1>7 DEF PageInv

LEMMA RenderSelectedKeeps ==
    ASSUME PageInv, RenderSelected
    PROVE  PageInv'
<1>1. /\ timer \in Objects /\ chat \in Objects
      /\ timer.live => timer.task \in DOMAIN emails
      /\ chat.live => chat.task \in DOMAIN emails
      /\ timer.task = NoTask => timer = NoObject
      /\ timer # NoObject /\ timer' = NoObject /\ card' = timer.task
  BY DEF PageInv, TypeOK, InputsBound, RenderSelected
<1>2. UNCHANGED <<server, archived, emails, unread, header, selected, tab, cache, forms,
                  pending, loads, marks, post, closing, typed, atLoad, gone, skewed, events>>
  BY DEF RenderSelected, network, database, counter, replies
<1>5. reply' \in ReplyStates
  BY ReplyKept DEF RenderSelected
<1>3. CASE tab = "chat"
  <2>1. /\ chat' = timer \/ chat' = NoObject
        /\ editing' = FALSE
        /\ shadowed' = shadowed \cup ShadowedBy(timer)
    BY <1>3 DEF RenderSelected
  <2>2. shadowed' \subseteq Tasks
    BY <2>1 DEF ShadowedBy, PageInv, TypeOK
  <2>3. TypeOK'
    BY <1>1, <1>2, <1>5, <2>1, <2>2, NoObjectOf DEF PageInv, TypeOK, Objects
  <2>4. InputsBound'
    BY <1>1, <1>2, <1>3, <2>1, NoObjectOf DEF PageInv, InputsBound
  <2>5. ASSUME chat' # NoObject
        PROVE  TextIn(chat)' >= typed'[chat'.task] \/ chat'.task \in shadowed'
    <3>1. chat' = timer /\ timer.task \in Tasks
      BY <1>1, <2>1, <2>5 DEF Objects, NoneOr
    <3>2. TextIn(chat)' = TextIn(timer)
      BY <1>2, <3>1 DEF TextIn
    <3>3. TextIn(timer) \in Texts /\ typed[timer.task] \in Texts
      BY <1>1, <3>1, FrozenKeeps DEF PageInv, TypeOK
    <3>4. TextIn(timer) >= typed[timer.task] \/ timer.task \in ShadowedBy(timer)
      BY <3>1, <3>3, PageAssumption DEF ShadowedBy, Texts
    <3>. QED
      BY <1>2, <2>1, <3>1, <3>2, <3>4
  <2>6. DraftShown'
    BY <2>5 DEF DraftShown
  <2>7. DraftKept' /\ ListIsRecent' /\ CounterCounts'
    BY <1>2, <2>1 DEF PageInv, DraftKept, ListIsRecent, CounterCounts, UnreadIn
  <2>. QED
    BY <2>3, <2>4, <2>6, <2>7 DEF PageInv
<1>4. CASE tab = "emails"
  <2>1. UNCHANGED <<chat, editing, shadowed>>
    BY <1>4 DEF RenderSelected, database, counter, replies
  <2>2. TypeOK'
    BY <1>1, <1>2, <1>5, <2>1, NoObjectOf DEF PageInv, TypeOK, Objects
  <2>3. InputsBound'
    BY <1>1, <1>2, <2>1 DEF PageInv, InputsBound
  <2>4. DraftKept' /\ ListIsRecent' /\ CounterCounts'
    BY <1>2, <2>1 DEF PageInv, DraftKept, ListIsRecent, CounterCounts, UnreadIn
  <2>5. DraftShown'
    BY <1>2, <2>1 DEF PageInv, DraftShown, TextIn
  <2>. QED
    BY <2>2, <2>3, <2>4, <2>5 DEF PageInv
<1>. QED
  BY <1>3, <1>4 DEF PageInv, TypeOK

LEMMA CloseAndMarkUnreadKeeps ==
    ASSUME PageInv, CloseAndMarkUnread
    PROVE  PageInv'
<1>1. /\ emails \in Lists /\ unread \in Nat /\ marks \in Seq(Marks)
      /\ selected \in NoneOr /\ card \in NoneOr
      /\ \A n \in DOMAIN marks : marks[n].live => marks[n].task \in DOMAIN emails
  BY DEF PageInv, TypeOK
<1>2. UNCHANGED <<server, archived, tab, chat, forms, pending, timer, loads, post, closing,
                  typed, atLoad, gone, skewed, shadowed>>
  BY DEF CloseAndMarkUnread, history, database, counter, replies
<1>3. /\ emails' \in Lists /\ DOMAIN emails' = DOMAIN emails
      /\ \A u \in DOMAIN emails : emails'[u].text = emails[u].text
      /\ CounterCounts' /\ unread' \in Nat /\ header' \in Headers
      /\ marks' \in Seq(Marks)
      /\ \A n \in DOMAIN marks' : marks'[n].live => marks'[n].task \in DOMAIN emails
      /\ selected' \in NoneOr /\ card' \in NoneOr
  <2>1. CASE selected \in DOMAIN emails /\ emails[selected].read
    <3>1. /\ emails' = [emails EXCEPT ![selected].read = FALSE]
          /\ unread' = unread + 1 /\ header' = [of |-> "unread", n |-> unread']
          /\ marks' = Append(marks, [task |-> selected, value |-> FALSE, live |-> TRUE])
          /\ selected' = selected /\ card' = card
      BY <2>1 DEF CloseAndMarkUnread, Mark, UnreadShown
    <3>2. /\ emails' \in Lists /\ DOMAIN emails' = DOMAIN emails
          /\ \A u \in DOMAIN emails : emails'[u].text = emails[u].text
          /\ UnreadIn(emails') = UnreadIn(emails) + 1
      <4>1. emails[selected].read = ~FALSE
        <5>1. emails[selected] \in Items
          BY <1>1, <2>1, ListType
        <5>. QED
          BY <2>1, <5>1 DEF Items
      <4>. QED
        BY <1>1, <2>1, <3>1, <4>1, UnreadMarked
    <3>3. CounterCounts' /\ unread' \in Nat /\ header' \in Headers
      <4>1. skewed \/ unread = UnreadIn(emails) + gone
        BY DEF PageInv, CounterCounts
      <4>2. UnreadIn(emails)' = UnreadIn(emails')
        BY DEF UnreadIn
      <4>3. gone \in Nat /\ UnreadIn(emails) \in Nat
        BY <1>1, UnreadIsANumber DEF PageInv, TypeOK
      <4>. QED
        BY <1>1, <1>2, <3>1, <3>2, <4>1, <4>2, <4>3 DEF CounterCounts, Headers
    <3>4. [task |-> selected, value |-> FALSE, live |-> TRUE] \in Marks
      BY <1>1, <2>1, ListType DEF Marks
    <3>5. /\ marks' \in Seq(Marks)
          /\ \A n \in DOMAIN marks' : \/ n \in DOMAIN marks /\ marks'[n] = marks[n]
                                      \/ marks'[n].task = selected
      BY <1>1, <3>1, <3>4, AppendProperties, LenProperties
    <3>. QED
      BY <1>1, <2>1, <3>1, <3>2, <3>3, <3>5
  <2>2. CASE ~(selected \in DOMAIN emails /\ emails[selected].read)
    <3>1. selected' = NoTask /\ card' = NoTask /\ UNCHANGED <<emails, unread, header, marks>>
      BY <2>2 DEF CloseAndMarkUnread, database, counter, replies
    <3>. QED
      BY <1>1, <1>2, <3>1 DEF PageInv, TypeOK, CounterCounts, UnreadIn, NoneOr
  <2>. QED
    BY <2>1, <2>2
<1>4. cache' \in [Tasks -> Texts] /\ DraftKept' /\ editing' = FALSE
  BY <1>2, LeaveInputKeeps DEF CloseAndMarkUnread, Click, DraftKept
<1>5. DraftShown' /\ ListIsRecent'
  BY <1>2, <1>3, MarksAreNotTexts
<1>6. events' \in 0..MaxEvents
  BY EventCounted DEF CloseAndMarkUnread, Click
<1>9. reply' \in ReplyStates
  BY ReplyKept DEF CloseAndMarkUnread, Click
<1>7. TypeOK'
  BY <1>2, <1>3, <1>4, <1>6, <1>9 DEF PageInv, TypeOK
<1>8. InputsBound'
  BY <1>2, <1>4 DEF PageInv, InputsBound
<1>. QED
  BY <1>3, <1>4, <1>5, <1>7, <1>8 DEF PageInv

LEMMA SwitchTabKeeps ==
    ASSUME PageInv, SwitchTab
    PROVE  PageInv'
<1>1. UNCHANGED <<server, archived, emails, unread, header, selected, forms, pending, timer,
                  loads, marks, post, closing, typed, atLoad, gone, skewed>>
  BY DEF SwitchTab, network, database, counter, replies
<1>2. emails \in Lists /\ DOMAIN emails \subseteq Tasks /\ shadowed \subseteq Tasks
  BY ListType DEF PageInv, TypeOK
<1>3. events' \in 0..MaxEvents
  BY EventCounted DEF SwitchTab, Click
<1>9. reply' \in ReplyStates
  BY ReplyKept DEF SwitchTab, Click
<1>4. shadowed \subseteq shadowed' /\ shadowed' \subseteq Tasks
  BY <1>2 DEF SwitchTab, ShadowedBy
<1>5. cache' \in [Tasks -> Texts] /\ DraftKept' /\ editing' = FALSE
  BY <1>1, <1>4, LeaveInputKeeps DEF SwitchTab, Click, DraftKept
<1>6. ListIsRecent' /\ CounterCounts'
  BY <1>1, <1>4 DEF PageInv, ListIsRecent, CounterCounts, UnreadIn
<1>7. CASE tab' = "chat" /\ chat' = ChatOf(selected, emails)
           /\ shadowed' = shadowed \cup ShadowedBy(ChatOf(selected, emails)) /\ card' = card
  <2>1. /\ chat' \in Objects
        /\ chat'.live => chat'.task \in DOMAIN emails
        /\ ~chat'.live => chat' = NoObject
        /\ chat'.task = NoTask => chat' = NoObject
    BY <1>2, <1>7, ChatOfProperties
  <2>2. TypeOK'
    BY <1>1, <1>3, <1>4, <1>5, <1>7, <1>9, <2>1 DEF PageInv, TypeOK
  <2>3. InputsBound'
    BY <1>1, <1>5, <1>7, <2>1 DEF PageInv, InputsBound
  <2>4. ASSUME chat' # NoObject
        PROVE  TextIn(chat)' >= typed'[chat'.task] \/ chat'.task \in shadowed'
    <3>1. chat'.live /\ chat'.task \in DOMAIN emails /\ chat'.task \in Tasks
      BY <1>2, <2>1, <2>4
    <3>2. TextIn(chat)' = TextIn(ChatOf(selected, emails))
      BY <1>1, <1>7 DEF TextIn
    <3>3. TextIn(ChatOf(selected, emails)) \in Texts /\ typed[chat'.task] \in Texts
      BY <1>2, <1>7, <2>1, <3>1, FrozenKeeps DEF PageInv, TypeOK
    <3>4. \/ TextIn(ChatOf(selected, emails)) >= typed[chat'.task]
          \/ chat'.task \in ShadowedBy(ChatOf(selected, emails))
      BY <1>7, <3>1, <3>3, PageAssumption DEF ShadowedBy, Texts
    <3>. QED
      BY <1>1, <1>7, <3>2, <3>4
  <2>5. DraftShown'
    BY <2>4 DEF DraftShown
  <2>. QED
    BY <1>5, <1>6, <2>2, <2>3, <2>5 DEF PageInv
<1>8. CASE tab' = "emails" /\ chat' = NoObject /\ shadowed' = shadowed
           /\ card' = IF selected \in DOMAIN emails THEN selected ELSE NoTask
  <2>1. card' \in NoneOr
    BY <1>8 DEF PageInv, TypeOK, NoneOr
  <2>2. TypeOK'
    BY <1>1, <1>3, <1>5, <1>8, <1>9, <2>1, NoObjectOf DEF PageInv, TypeOK
  <2>3. InputsBound' /\ DraftShown'
    BY <1>1, <1>5, <1>8 DEF PageInv, InputsBound, DraftShown
  <2>. QED
    BY <1>5, <1>6, <2>2, <2>3 DEF PageInv
<1>. QED
  BY <1>7, <1>8 DEF SwitchTab

-----------------------------------------------------------------------------
(* Marks that are answered                                                  *)

LEMMA MarkTaken ==
    ASSUME PageInv, NEW n \in DOMAIN marks, marks' = RemoveAt(marks, n)
    PROVE  /\ marks[n] \in Marks
           /\ marks' \in Seq(Marks)
           /\ marks[n].live => marks[n].task \in DOMAIN emails
           /\ \A k \in DOMAIN marks' : marks'[k].live => marks'[k].task \in DOMAIN emails
<1>1. marks \in Seq(Marks) /\ \A k \in DOMAIN marks : marks[k].live => marks[k].task \in DOMAIN emails
  BY DEF PageInv, TypeOK
<1>2. n \in 1..Len(marks) /\ DOMAIN marks = 1..Len(marks) /\ Len(marks) \in Nat
  BY <1>1, LenProperties
<1>3. /\ marks' \in Seq(Marks) /\ Len(marks') = Len(marks) - 1
      /\ \A i \in 1 .. Len(marks) - 1 : marks'[i] = IF i < n THEN marks[i] ELSE marks[i + 1]
  BY <1>1, RemoveAtProperties
<1>4. DOMAIN marks' = 1 .. Len(marks) - 1
  BY <1>3, LenProperties
<1>5. ASSUME NEW k \in DOMAIN marks', marks'[k].live
      PROVE  marks'[k].task \in DOMAIN emails
  <2>1. k \in DOMAIN marks /\ k + 1 \in DOMAIN marks
    BY <1>2, <1>4
  <2>2. marks'[k] = IF k < n THEN marks[k] ELSE marks[k + 1]
    BY <1>3, <1>4
  <2>. QED
    BY <1>1, <1>5, <2>1, <2>2
<1>6. marks[n] \in Marks
  BY <1>1, <1>2, ElementOfSeq
<1>. QED
  BY <1>1, <1>3, <1>5, <1>6

LEMMA MarkDoneKeeps ==
    ASSUME PageInv, MarkDone
    PROVE  PageInv'
<1>1. PICK n \in DOMAIN marks :
        /\ server' = [server EXCEPT ![marks[n].task].read = marks[n].value]
        /\ marks' = RemoveAt(marks, n)
        /\ IF marks[n].value THEN UNCHANGED <<selected, card>>
           ELSE selected' = NoTask /\ card' = NoTask
        /\ CardReplaced \/ UNCHANGED reply
  BY DEF MarkDone
<1>2. UNCHANGED <<archived, emails, unread, header, tab, chat, cache, editing, forms, pending, timer,
                  loads, post, closing, typed, atLoad, gone, skewed, shadowed, events>>
  BY DEF MarkDone, history, database, counter, replies
<1>3. /\ marks[n] \in Marks /\ marks' \in Seq(Marks)
      /\ \A k \in DOMAIN marks' : marks'[k].live => marks'[k].task \in DOMAIN emails
  BY <1>1, MarkTaken
<1>4. server' \in [Tasks -> Rows]
  BY <1>1, <1>3 DEF PageInv, TypeOK, Rows, Marks
<1>5. selected' \in NoneOr /\ card' \in NoneOr
  BY <1>1 DEF PageInv, TypeOK, NoneOr
<1>9. reply' \in ReplyStates
  BY <1>1, ReplyKept
<1>6. TypeOK'
  BY <1>2, <1>3, <1>4, <1>5, <1>9 DEF PageInv, TypeOK
<1>7. InputsBound' /\ DraftKept' /\ ListIsRecent' /\ CounterCounts'
  BY <1>2 DEF PageInv, InputsBound, DraftKept, ListIsRecent, CounterCounts, UnreadIn
<1>8. DraftShown'
  BY <1>2 DEF PageInv, DraftShown, TextIn
<1>. QED
  BY <1>6, <1>7, <1>8 DEF PageInv

LEMMA MarkFailsKeeps ==
    ASSUME PageInv, MarkFails
    PROVE  PageInv'
<1>1. PICK n \in DOMAIN marks :
        /\ \/ server' = [server EXCEPT ![marks[n].task].read = marks[n].value]
           \/ UNCHANGED server
        /\ marks' = RemoveAt(marks, n)
        /\ emails' = IF marks[n].live THEN [emails EXCEPT ![marks[n].task].read = ~marks[n].value]
                     ELSE emails
        /\ unread' = IF marks[n].value THEN unread + 1 ELSE Minus1(unread)
        /\ header' = [of |-> "unread", n |-> unread']
        /\ skewed' = (skewed \/ ~marks[n].live \/ emails[marks[n].task].read # marks[n].value)
  BY DEF MarkFails, UnreadShown
<1>2. UNCHANGED <<archived, selected, tab, chat, card, cache, editing, forms, reply, pending, timer, loads,
                  post, closing, typed, atLoad, gone, shadowed, events>>
  BY DEF MarkFails, database, counter, replies
<1>. DEFINE m == marks[n]
<1>3. /\ m \in Marks /\ marks' \in Seq(Marks)
      /\ m.live => m.task \in DOMAIN emails
      /\ \A k \in DOMAIN marks' : marks'[k].live => marks'[k].task \in DOMAIN emails
  BY <1>1, MarkTaken
<1>4. emails \in Lists /\ unread \in Nat /\ skewed \in BOOLEAN
  BY DEF PageInv, TypeOK
<1>5. m.value \in BOOLEAN /\ m.live \in BOOLEAN /\ (~m.value) \in BOOLEAN
  BY <1>3 DEF Marks
<1>6. server' \in [Tasks -> Rows]
  <2>1. server \in [Tasks -> Rows] /\ m.task \in Tasks /\ m.value \in BOOLEAN
    BY <1>3 DEF PageInv, TypeOK, Marks
  <2>2. [server EXCEPT ![m.task].read = m.value] \in [Tasks -> Rows]
    BY <2>1 DEF Rows
  <2>. QED
    BY <1>1, <2>1, <2>2
<1>7. /\ emails' \in Lists /\ DOMAIN emails' = DOMAIN emails
      /\ \A t \in DOMAIN emails : emails'[t].text = emails[t].text
  <2>1. CASE m.live
    <3>1. emails' = [emails EXCEPT ![m.task].read = ~m.value] /\ m.task \in DOMAIN emails
      BY <1>1, <1>3, <2>1
    <3>2. emails \in [DOMAIN emails -> Items] /\ DOMAIN emails \subseteq Tasks
      BY <1>4, ListType
    <3>. HIDE DEF m
    <3>3. /\ emails' \in [DOMAIN emails -> Items] /\ DOMAIN emails' = DOMAIN emails
          /\ \A t \in DOMAIN emails : emails'[t].text = emails[t].text
      BY <1>5, <3>1, <3>2 DEF Items
    <3>. QED
      BY <3>2, <3>3, ListType
  <2>2. CASE ~m.live
    BY <1>1, <1>4, <2>2
  <2>. QED
    BY <2>1, <2>2
<1>8. unread' \in Nat
  BY <1>1, <1>4 DEF Minus1
<1>9. CounterCounts'
  <2>1. SUFFICES ASSUME ~skewed' PROVE unread' = UnreadIn(emails') + gone
    BY <1>1, <1>2 DEF CounterCounts, UnreadIn
  <2>2. ~skewed /\ m.live /\ emails[m.task].read = m.value
    BY <1>1, <2>1
  <2>3. unread = UnreadIn(emails) + gone /\ gone \in Nat /\ UnreadIn(emails) \in Nat
    BY <1>4, <2>2, UnreadIsANumber DEF PageInv, TypeOK, CounterCounts
  <2>4. /\ emails' = [emails EXCEPT ![m.task].read = ~m.value]
        /\ m.task \in DOMAIN emails
    BY <1>1, <1>3, <2>2
  <2>5. emails[m.task].read = ~(~m.value)
    BY <1>5, <2>2
  <2>6. /\ UnreadIn(emails') = IF ~m.value THEN UnreadIn(emails) - 1 ELSE UnreadIn(emails) + 1
        /\ ~m.value => UnreadIn(emails) > 0
    <3>. HIDE DEF m
    <3>. QED
      BY <1>4, <1>5, <2>4, <2>5, UnreadMarked
  <2>. QED
    BY <1>1, <1>4, <1>5, <2>3, <2>6 DEF Minus1
<1>10. DraftShown' /\ ListIsRecent'
  BY <1>2, <1>7, MarksAreNotTexts
<1>11. skewed' \in BOOLEAN
  BY <1>1
<1>14. header' \in Headers
  BY <1>1, <1>8 DEF Headers
<1>12. TypeOK'
  BY <1>2, <1>3, <1>6, <1>7, <1>8, <1>11, <1>14 DEF PageInv, TypeOK
<1>13. InputsBound' /\ DraftKept'
  BY <1>2 DEF PageInv, InputsBound, DraftKept
<1>. QED
  BY <1>9, <1>10, <1>12, <1>13 DEF PageInv

-----------------------------------------------------------------------------
(* Inputs and answers                                                       *)

LEMMA FocusKeeps ==
    ASSUME PageInv, Focus
    PROVE  PageInv'
<1>1. UNCHANGED <<server, archived, emails, unread, header, selected, tab, chat, card, cache,
                  forms, reply, pending, timer, loads, marks, post, closing, typed, atLoad, gone,
                  skewed, shadowed, events>>
  BY DEF Focus, network, history, database, counter, replies
<1>2. editing' = TRUE /\ chat # NoObject
  BY DEF Focus
<1>3. TypeOK'
  BY <1>1, <1>2 DEF PageInv, TypeOK
<1>4. InputsBound' /\ DraftKept' /\ ListIsRecent' /\ CounterCounts'
  BY <1>1, <1>2 DEF PageInv, InputsBound, DraftKept, ListIsRecent, CounterCounts, UnreadIn
<1>5. DraftShown'
  BY <1>1 DEF PageInv, DraftShown, TextIn
<1>. QED
  BY <1>3, <1>4, <1>5 DEF PageInv

\* Blur, Send and CloseTask leave an input and change no more than the posts that are out.
LEMMA LeftInputKeeps ==
    ASSUME PageInv, LeaveInput, post' \in Posts, closing' \in Posts, events' \in 0..MaxEvents,
           reply' \in ReplyStates,
           UNCHANGED <<server, archived, emails, unread, header, selected, tab, chat, card, forms,
                       pending, timer, loads, marks, typed, atLoad, gone, skewed, shadowed>>
    PROVE  PageInv'
<1>1. /\ cache' \in [Tasks -> Texts] /\ editing' = FALSE
      /\ \A t \in Tasks : cache'[t] >= typed[t] \/ t \in shadowed
  BY LeaveInputKeeps
<1>2. TypeOK'
  BY <1>1 DEF PageInv, TypeOK
<1>3. InputsBound' /\ DraftKept' /\ ListIsRecent' /\ CounterCounts'
  BY <1>1 DEF PageInv, InputsBound, DraftKept, ListIsRecent, CounterCounts, UnreadIn
<1>4. DraftShown'
  BY DEF PageInv, DraftShown, TextIn
<1>. QED
  BY <1>2, <1>3, <1>4 DEF PageInv

LEMMA BlurKeeps ==
    ASSUME PageInv, Blur
    PROVE  PageInv'
BY LeftInputKeeps DEF Blur, network, history, PageInv, TypeOK, database, counter, replies

LEMMA SendKeeps ==
    ASSUME PageInv, Send
    PROVE  PageInv'
<1>1. selected \in Tasks
  BY ListType DEF PageInv, TypeOK, Send, Answerable
<1>2. post' \in Posts /\ closing' \in Posts
  BY <1>1 DEF Send, Posts, PageInv, TypeOK
<1>3. events' \in 0..MaxEvents /\ LeaveInput /\ reply' \in ReplyStates
  BY ReplyKept DEF Send, PageInv, TypeOK
<1>. QED
  BY <1>2, <1>3, LeftInputKeeps DEF Send, history, database, counter

LEMMA CloseTaskKeeps ==
    ASSUME PageInv, CloseTask
    PROVE  PageInv'
<1>1. post' \in Posts /\ closing' \in Posts
  BY DEF CloseTask, Posts, NoneOr, PageInv, TypeOK
<1>2. events' \in 0..MaxEvents /\ LeaveInput /\ reply' \in ReplyStates
  BY EventCounted, ReplyKept DEF CloseTask, Click
<1>. QED
  BY <1>1, <1>2, LeftInputKeeps DEF CloseTask, history, database, counter

LEMMA TypeKeeps ==
    ASSUME PageInv, Type
    PROVE  PageInv'
<1>. DEFINE t == chat.task
            text == TextIn(chat) + 1
<1>1. /\ chat \in Objects /\ chat # NoObject /\ emails \in Lists
      /\ timer \in Objects
      /\ chat.live => chat.task \in DOMAIN emails
      /\ timer.live => timer.task \in DOMAIN emails
      /\ timer.task = NoTask => timer = NoObject
      /\ typed \in [Tasks -> Texts] /\ cache \in [Tasks -> Texts]
  BY DEF PageInv, TypeOK, InputsBound, Type
<1>2. t \in Tasks /\ text \in Texts /\ text > TextIn(chat)
  <2>1. t \in Tasks
    BY <1>1 DEF PageInv, InputsBound, Objects, NoneOr
  <2>2. TextIn(chat) \in Texts
    BY <1>1, FrozenKeeps
  <2>. QED
    BY <2>1, <2>2, PageAssumption DEF Type, Texts
<1>3. /\ typed' = [typed EXCEPT ![t] = text]
      /\ cache' = [cache EXCEPT ![t] = text]
      /\ UNCHANGED <<server, archived, unread, header, selected, tab, card, editing, forms, reply,
                     pending, timer, loads, marks, post, closing, atLoad, gone, skewed, shadowed,
                     events>>
  BY DEF Type, network, database, counter, replies
<1>. HIDE DEF t, text
<1>4. /\ typed' \in [Tasks -> Texts] /\ cache' \in [Tasks -> Texts]
      /\ \A u \in Tasks : /\ typed'[u] = IF u = t THEN text ELSE typed[u]
                          /\ cache'[u] = IF u = t THEN text ELSE cache[u]
  BY <1>1, <1>2, <1>3
<1>5. DraftKept'
  BY <1>2, <1>3, <1>4, PageAssumption DEF PageInv, DraftKept, Texts
<1>6. /\ emails' \in Lists /\ DOMAIN emails' = DOMAIN emails
      /\ \A u \in DOMAIN emails : /\ emails'[u].read = emails[u].read
                                  /\ emails'[u].text >= emails[u].text
      /\ chat' \in Objects /\ chat'.live = chat.live /\ chat'.task = t /\ chat' # NoObject
      /\ TextIn(chat)' = text
  <2>1. /\ emails \in [DOMAIN emails -> Items] /\ DOMAIN emails \subseteq Tasks
        /\ \A u \in DOMAIN emails : emails[u].text \in Nat
    BY <1>1, ListType DEF Items, Texts
  <2>2. CASE chat.live
    <3>1. emails' = [emails EXCEPT ![t].text = text] /\ chat' = chat /\ t = chat.task
      BY <2>2 DEF Type, t, text
    <3>2. t \in DOMAIN emails /\ TextIn(chat) = emails[t].text
      BY <1>1, <2>2 DEF TextIn, t
    <3>3. /\ emails' \in [DOMAIN emails -> Items] /\ DOMAIN emails' = DOMAIN emails
          /\ \A u \in DOMAIN emails :
               /\ emails'[u].read = emails[u].read
               /\ emails'[u].text = IF u = t THEN text ELSE emails[u].text
      BY <1>2, <2>1, <3>1, <3>2 DEF Items
    <3>4. emails' \in Lists
      BY <2>1, <3>3, ListType
    <3>5. \A u \in DOMAIN emails : emails'[u].text >= emails[u].text
      BY <1>2, <2>1, <3>2, <3>3, PageAssumption DEF Texts
    <3>6. TextIn(chat)' = text
      BY <2>2, <3>1, <3>2, <3>3 DEF TextIn
    <3>. QED
      BY <1>1, <3>1, <3>3, <3>4, <3>5, <3>6
  <2>3. CASE ~chat.live
    <3>1. chat' = [chat EXCEPT !.text = text] /\ emails' = emails /\ t = chat.task
      BY <2>3 DEF Type, t, text
    <3>2. /\ chat' \in Objects /\ chat'.live = chat.live /\ chat'.task = t /\ chat'.text = text
      BY <1>1, <1>2, <3>1 DEF Objects
    <3>3. chat' # NoObject
      BY <1>2, <3>2, NoObjectOf, PageAssumption
    <3>4. TextIn(chat)' = text
      BY <2>3, <3>2 DEF TextIn
    <3>. QED
      BY <1>1, <2>1, <3>1, <3>2, <3>3, <3>4
  <2>. QED
    BY <2>2, <2>3
<1>7. TypeOK'
  BY <1>1, <1>2, <1>3, <1>4, <1>6 DEF PageInv, TypeOK, t
<1>8. InputsBound'
  <2>1. chat'.task # NoTask /\ tab' # "emails" /\ timer' = timer
    BY <1>1, <1>2, <1>3, <1>6, PageAssumption DEF PageInv, InputsBound
  <2>. QED
    BY <1>1, <1>6, <2>1 DEF InputsBound
<1>9. DraftShown'
  BY <1>2, <1>4, <1>6, PageAssumption DEF DraftShown, Texts
<1>10. ListIsRecent'
  <2>1. ASSUME NEW u \in DOMAIN emails', u \notin shadowed'
        PROVE  emails'[u].text >= atLoad'[u]
    <3>1. u \in DOMAIN emails /\ emails[u].text >= atLoad[u] /\ emails'[u].text >= emails[u].text
      BY <1>3, <1>6, <2>1 DEF PageInv, ListIsRecent
    <3>2. emails[u].text \in Nat /\ emails'[u].text \in Nat /\ atLoad[u] \in Nat
      BY <1>1, <1>6, <3>1, ListType DEF Items, Texts, PageInv, TypeOK
    <3>. QED
      BY <1>3, <3>1, <3>2
  <2>. QED
    BY <2>1 DEF ListIsRecent
<1>11. CounterCounts'
  <2>1. UnreadIn(emails') = UnreadIn(emails)
    BY <1>6, UnreadOfTheSame
  <2>2. UnreadIn(emails)' = UnreadIn(emails')
    BY DEF UnreadIn
  <2>. QED
    BY <1>3, <2>1, <2>2 DEF PageInv, CounterCounts
<1>. QED
  BY <1>5, <1>7, <1>8, <1>9, <1>10, <1>11 DEF PageInv

LEMMA PostAnsweredKeeps ==
    ASSUME PageInv, PostAnswered
    PROVE  PageInv'
<1>1. UNCHANGED <<server, archived, emails, unread, header, selected, tab, chat, card, editing,
                  forms, reply, pending, timer, marks, closing, gone, skewed, shadowed, events>>
  BY DEF PostAnswered, database, counter, replies
<1>2. /\ post \in [task : Tasks, state : {"out", "stored", "refused"}] /\ post' \in Posts
      /\ cache \in [Tasks -> Texts] /\ typed \in [Tasks -> Texts] /\ atLoad \in [Tasks -> Texts]
      /\ loads \in Seq(Calls)
      /\ chat.live => chat.task \in DOMAIN emails
      /\ chat \in Objects /\ emails \in Lists /\ emails \in [DOMAIN emails -> Items]
      /\ DOMAIN emails \subseteq Tasks
      /\ chat # NoObject => chat.task \in Tasks
  BY ListType DEF PostAnswered, PageInv, TypeOK, Posts, NoPost, InputsBound, Objects, NoneOr
<1>. DEFINE t == post.task
<1>3. CASE post.state = "stored"
  <2>1. /\ cache' = [cache EXCEPT ![t] = 0]
        /\ typed' = [typed EXCEPT ![t] = 0]
        /\ atLoad' = [atLoad EXCEPT ![t] = 0]
        /\ loads' = Append(loads, ListCall(t, TRUE))
    BY <1>3 DEF PostAnswered
  <2>2. loads' \in Seq(Calls)
    <3>1. ListCall(t, TRUE) \in Calls
      BY <1>2 DEF ListCall, Calls, NoneOr
    <3>. QED
      BY <1>2, <2>1, <3>1, AppendProperties
  <2>3. 0 \in Texts /\ t \in Tasks
    BY <1>2, PageAssumption DEF Texts
  <2>4. /\ cache' \in [Tasks -> Texts] /\ typed' \in [Tasks -> Texts]
        /\ atLoad' \in [Tasks -> Texts]
        /\ \A u \in Tasks : /\ cache'[u] = IF u = t THEN 0 ELSE cache[u]
                            /\ typed'[u] = IF u = t THEN 0 ELSE typed[u]
                            /\ atLoad'[u] = IF u = t THEN 0 ELSE atLoad[u]
    BY <1>2, <2>1, <2>3
  <2>5. TypeOK'
    BY <1>1, <1>2, <2>2, <2>4 DEF PageInv, TypeOK
  <2>6. DraftKept'
    BY <1>1, <2>4 DEF PageInv, DraftKept
  <2>7. ListIsRecent'
    <3>1. \A u \in DOMAIN emails : emails[u].text \in Nat /\ u \in Tasks
      BY <1>2 DEF Items, Texts
    <3>2. ASSUME NEW u \in DOMAIN emails, u \notin shadowed
          PROVE  emails[u].text >= atLoad'[u]
      BY <2>4, <3>1, <3>2 DEF PageInv, ListIsRecent
    <3>. QED
      BY <1>1, <3>2 DEF ListIsRecent
  <2>8. DraftShown'
    <3>1. TextIn(chat) \in Nat
      BY <1>2, FrozenKeeps DEF Texts
    <3>2. TextIn(chat)' = TextIn(chat)
      BY <1>1 DEF TextIn
    <3>3. ASSUME chat # NoObject, chat.task \notin shadowed
          PROVE  TextIn(chat) >= typed'[chat.task]
      BY <1>2, <2>4, <3>1, <3>3 DEF PageInv, DraftShown
    <3>. QED
      BY <1>1, <3>2, <3>3 DEF DraftShown
  <2>9. InputsBound' /\ CounterCounts'
    BY <1>1 DEF PageInv, InputsBound, CounterCounts, UnreadIn
  <2>. QED
    BY <2>5, <2>6, <2>7, <2>8, <2>9 DEF PageInv
<1>4. CASE post.state # "stored"
  <2>1. UNCHANGED <<cache, typed, atLoad, gone, loads>>
    BY <1>4 DEF PostAnswered, database, counter, replies
  <2>2. TypeOK'
    BY <1>1, <1>2, <2>1 DEF PageInv, TypeOK
  <2>3. InputsBound' /\ DraftKept' /\ ListIsRecent' /\ CounterCounts'
    BY <1>1, <2>1 DEF PageInv, InputsBound, DraftKept, ListIsRecent, CounterCounts, UnreadIn
  <2>4. DraftShown'
    BY <1>1, <2>1 DEF PageInv, DraftShown, TextIn
  <2>. QED
    BY <2>2, <2>3, <2>4 DEF PageInv
<1>. QED
  BY <1>3, <1>4

\* Neither the list nor what is shown of it changes.
LEMMA ListUntouchedKeeps ==
    ASSUME PageInv, server' \in [Tasks -> Rows], archived' \subseteq Tasks,
           post' \in Posts, closing' \in Posts, forms' \subseteq Tasks, reply' \in ReplyStates,
           events' \in 0..MaxEvents,
           UNCHANGED <<emails, unread, header, selected, tab, chat, card, cache, editing, pending,
                       timer, loads, marks, typed, atLoad, gone, skewed, shadowed>>
    PROVE  PageInv'
<1>1. TypeOK'
  BY DEF PageInv, TypeOK
<1>2. InputsBound' /\ DraftKept' /\ ListIsRecent' /\ CounterCounts'
  BY DEF PageInv, InputsBound, DraftKept, ListIsRecent, CounterCounts, UnreadIn
<1>3. DraftShown'
  BY DEF PageInv, DraftShown, TextIn
<1>. QED
  BY <1>1, <1>2, <1>3 DEF PageInv

LEMMA PostArrivesKeeps ==
    ASSUME PageInv, PostArrives
    PROVE  PageInv'
<1>1. post \in [task : Tasks, state : {"out", "stored", "refused"}] /\ server \in [Tasks -> Rows]
  BY DEF PostArrives, PageInv, TypeOK, Posts, NoPost
<1>2. server' \in [Tasks -> Rows] /\ post' \in Posts
  BY <1>1 DEF PostArrives, Rows, Posts
<1>. QED
  BY <1>2, ListUntouchedKeeps DEF PostArrives, history, counter, replies, PageInv, TypeOK

LEMMA ArchiveArrivesKeeps ==
    ASSUME PageInv, ArchiveArrives
    PROVE  PageInv'
<1>1. closing \in [task : Tasks, state : {"out", "stored", "refused"}] /\ archived \subseteq Tasks
  BY DEF ArchiveArrives, PageInv, TypeOK, Posts, NoPost
<1>2. archived' \subseteq Tasks /\ closing' \in Posts
  BY <1>1 DEF ArchiveArrives, Posts
<1>. QED
  BY <1>2, ListUntouchedKeeps DEF ArchiveArrives, history, counter, replies, PageInv, TypeOK

LEMMA PostFailsKeeps ==
    ASSUME PageInv, PostFails \/ ArchiveFails
    PROVE  PageInv'
<1>1. post' \in Posts /\ closing' \in Posts
  BY DEF PostFails, ArchiveFails, PageInv, TypeOK, Posts
<1>. QED
  BY <1>1, ListUntouchedKeeps
     DEF PostFails, ArchiveFails, history, database, counter, replies, PageInv, TypeOK

\* Opening, using, leaving and closing the form of a reply.
LEMMA ReplyStepKeeps ==
    ASSUME PageInv, LeaveReply \/ \E t \in Tasks : OpenReply(t) \/ UseReply(t) \/ CloseReply(t)
    PROVE  PageInv'
<1>1. forms' \subseteq Tasks /\ reply' \in ReplyStates
  BY DEF OpenReply, UseReply, LeaveReply, CloseReply, ReplyStates, PageInv, TypeOK
<1>2. events' \in 0..MaxEvents
  BY EventCounted DEF OpenReply, UseReply, LeaveReply, CloseReply, PageInv, TypeOK
<1>. QED
  BY <1>1, <1>2, ListUntouchedKeeps
     DEF OpenReply, UseReply, LeaveReply, CloseReply, Unreplied, history, database, counter,
         network, PageInv, TypeOK

\* The email that was archived leaves the list, and with it what is bound to it.
LEMMA ArchiveAnsweredKeeps ==
    ASSUME PageInv, ArchiveAnswered
    PROVE  PageInv'
<1>. DEFINE t == closing.task
<1>1. /\ emails' = Restrict(emails, DOMAIN emails \ {t})
      /\ gone' = IF t \in DOMAIN emails /\ ~emails[t].read THEN gone + 1 ELSE gone
      /\ cache' = [cache EXCEPT ![t] = 0] /\ typed' = [typed EXCEPT ![t] = 0]
      /\ atLoad' = [atLoad EXCEPT ![t] = 0]
      /\ chat' = FrozenOf(chat, t) /\ timer' = FrozenOf(timer, t)
      /\ marks' = [m \in DOMAIN marks |-> [marks[m] EXCEPT !.live = @ /\ marks[m].task # t]]
      /\ selected' = NoTask /\ card' = NoTask /\ closing' = NoPost
      /\ CardReplaced
      /\ UNCHANGED <<server, archived, unread, header, tab, editing, forms, pending, loads, post,
                     skewed, shadowed, events>>
  BY DEF ArchiveAnswered, database, counter
<1>2. /\ t \in Tasks /\ emails \in Lists
      /\ cache \in [Tasks -> Texts] /\ typed \in [Tasks -> Texts] /\ atLoad \in [Tasks -> Texts]
      /\ chat \in Objects /\ timer \in Objects
      /\ \A o \in {chat, timer} : /\ o.live => o.task \in DOMAIN emails
                                  /\ o.task = NoTask => o = NoObject
  BY DEF ArchiveAnswered, PageInv, TypeOK, InputsBound, Posts, NoPost
<1>3. 0 \in Texts
  BY PageAssumption DEF Texts
<1>4. /\ cache' \in [Tasks -> Texts] /\ typed' \in [Tasks -> Texts] /\ atLoad' \in [Tasks -> Texts]
      /\ \A u \in Tasks : /\ cache'[u] = IF u = t THEN 0 ELSE cache[u]
                          /\ typed'[u] = IF u = t THEN 0 ELSE typed[u]
                          /\ atLoad'[u] = IF u = t THEN 0 ELSE atLoad[u]
  BY <1>1, <1>2, <1>3
<1>5. /\ emails' \in Lists /\ DOMAIN emails' = DOMAIN emails \ {t}
      /\ \A u \in DOMAIN emails' : emails'[u] = emails[u]
      /\ UnreadIn(emails) =
           UnreadIn(emails') + IF t \in DOMAIN emails /\ ~emails[t].read THEN 1 ELSE 0
  <2>. HIDE DEF t
  <2>. QED
    BY <1>1, <1>2, UnreadWithout
<1>6. ASSUME NEW o \in {chat, timer}
      PROVE  /\ FrozenOf(o, t) \in Objects
             /\ FrozenOf(o, t).live => FrozenOf(o, t).task \in DOMAIN emails'
             /\ FrozenOf(o, t).task = o.task
             /\ o.task = NoTask => FrozenOf(o, t) = NoObject
             /\ FrozenOf(o, t) # NoObject => o # NoObject
             /\ o # NoObject => FrozenOf(o, t) # NoObject
  <2>1. /\ o \in Objects /\ (o.live => o.task \in DOMAIN emails)
        /\ o.task = NoTask => o = NoObject
    BY <1>2
  <2>2. CASE o.task = t
    <3>1. FrozenOf(o, t) = Frozen(o) /\ o.task # NoTask
      BY <1>2, <2>2, PageAssumption DEF FrozenOf
    <3>. QED
      BY <1>2, <2>1, <2>2, <3>1, FrozenKeeps, NoObjectOf
  <2>3. CASE o.task # t
    BY <1>5, <2>1, <2>3 DEF FrozenOf
  <2>. QED
    BY <2>2, <2>3
<1>7. marks' \in Seq(Marks) /\ \A n \in DOMAIN marks' : marks'[n].live => marks'[n].task \in DOMAIN emails'
  <2>. HIDE DEF t
  <2>1. /\ marks \in [1..Len(marks) -> Marks] /\ Len(marks) \in Nat
        /\ DOMAIN marks = 1..Len(marks)
        /\ \A n \in DOMAIN marks : marks[n].live => marks[n].task \in DOMAIN emails
    BY LenProperties DEF PageInv, TypeOK
  <2>2. marks' = [m \in 1..Len(marks) |-> [marks[m] EXCEPT !.live = marks[m].live /\ marks[m].task # t]]
    BY <1>1, <2>1
  <2>3. \A m \in 1..Len(marks) :
          /\ marks'[m] \in Marks
          /\ marks'[m].task = marks[m].task
          /\ marks'[m].live = (marks[m].live /\ marks[m].task # t)
    BY <2>1, <2>2 DEF Marks
  <2>4. marks' \in [1..Len(marks) -> Marks]
    BY <2>2, <2>3
  <2>5. marks' \in Seq(Marks)
    BY <2>1, <2>4, SeqDef
  <2>. QED
    BY <1>5, <2>1, <2>2, <2>3, <2>5
<1>8. reply' \in ReplyStates /\ gone' \in Nat
  BY <1>1, ReplyKept DEF PageInv, TypeOK
<1>9. TypeOK'
  <2>1. NoTask \in NoneOr /\ NoPost \in Posts
    BY DEF NoneOr, Posts
  <2>. QED
    BY <1>1, <1>4, <1>5, <1>6, <1>7, <1>8, <2>1 DEF PageInv, TypeOK
<1>10. InputsBound'
  BY <1>1, <1>6, NoObjectOf DEF PageInv, InputsBound, FrozenOf
<1>11. DraftKept'
  BY <1>1, <1>4 DEF PageInv, DraftKept
<1>12. ListIsRecent'
  <2>1. ASSUME NEW u \in DOMAIN emails', u \notin shadowed
        PROVE  emails'[u].text >= atLoad'[u]
    <3>1. u \in DOMAIN emails /\ u # t /\ u \in Tasks /\ emails'[u] = emails[u]
      BY <1>2, <1>5, ListType
    <3>. QED
      BY <1>4, <2>1, <3>1 DEF PageInv, ListIsRecent
  <2>. QED
    BY <1>1, <2>1 DEF ListIsRecent
<1>13. DraftShown'
  <2>1. ASSUME chat' # NoObject, chat'.task \notin shadowed
        PROVE  TextIn(chat)' >= typed'[chat'.task]
    <3>1. /\ chat # NoObject /\ chat'.task = chat.task /\ chat.task \in Tasks
          /\ TextIn(chat) >= typed[chat.task] /\ TextIn(chat) \in Texts
      <4>1. chat # NoObject /\ chat'.task = chat.task
        BY <1>1, <1>6, <2>1
      <4>2. chat.task \in Tasks
        BY <1>2, <4>1 DEF Objects, NoneOr
      <4>3. TextIn(chat) \in Texts
        BY <1>2, FrozenKeeps
      <4>. QED
        BY <2>1, <4>1, <4>2, <4>3 DEF PageInv, DraftShown
    <3>2. TextIn(chat)' = TextIn(chat)
      <4>1. CASE chat.task = t
        <5>1. chat' = Frozen(chat)
          BY <1>1, <4>1 DEF FrozenOf
        <5>2. ~chat'.live /\ chat'.text = TextIn(chat)
          BY <1>2, <5>1, FrozenKeeps
        <5>. QED
          BY <5>2 DEF TextIn
      <4>2. CASE chat.task # t
        <5>1. chat' = chat
          BY <1>1, <4>2 DEF FrozenOf
        <5>. QED
          BY <1>2, <1>5, <4>2, <5>1 DEF TextIn
      <4>. QED
        BY <4>1, <4>2
    <3>3. typed'[chat.task] = IF chat.task = t THEN 0 ELSE typed[chat.task]
      BY <1>4, <3>1
    <3>. QED
      BY <3>1, <3>2, <3>3, PageAssumption DEF Texts
  <2>. QED
    BY <1>1, <2>1 DEF DraftShown
<1>14. CounterCounts'
  <2>1. gone \in Nat /\ UnreadIn(emails') \in Nat /\ UnreadIn(emails)' = UnreadIn(emails')
    BY <1>5, UnreadIsANumber DEF PageInv, TypeOK, UnreadIn
  <2>2. skewed \/ unread = UnreadIn(emails') + gone'
    <3>. HIDE DEF t
    <3>. QED
      BY <1>1, <1>5, <2>1 DEF PageInv, CounterCounts
  <2>. QED
    BY <1>1, <2>1, <2>2 DEF PageInv, CounterCounts
<1>. QED
  BY <1>9, <1>10, <1>11, <1>12, <1>13, <1>14 DEF PageInv

LEMMA OthersWriteKeeps ==
    ASSUME PageInv, OthersWrite
    PROVE  PageInv'
<1>1. server \in [Tasks -> Rows] /\ post \in Posts /\ events \in 0..MaxEvents
  BY DEF PageInv, TypeOK
<1>2. server' \in [Tasks -> Rows] /\ archived' \subseteq Tasks
  <2>1. PICK t \in Tasks :
          \/ server' = [server EXCEPT ![t].status = "other"] /\ archived' = archived
          \/ server' = [server EXCEPT ![t].status = "review"] /\ archived' = archived
          \/ server' = [server EXCEPT ![t].read = ~server[t].read] /\ archived' = archived
          \/ server' = server /\ archived' \in {archived \ {t}, archived \cup {t}}
    BY DEF OthersWrite
  <2>2. archived \subseteq Tasks
    BY DEF PageInv, TypeOK
  <2>3. server' \in [Tasks -> Rows]
    BY <1>1, <2>1 DEF Rows
  <2>4. archived' \subseteq Tasks
    BY <2>1, <2>2
  <2>. QED
    BY <2>3, <2>4
<1>3. events' \in 0..MaxEvents
  BY <1>1, EventCounted DEF OthersWrite
<1>4. UNCHANGED <<emails, unread, header, selected, tab, chat, card, cache, editing, forms, reply,
                  pending, timer, loads, marks, post, closing, typed, atLoad, gone, skewed,
                  shadowed>>
  BY DEF OthersWrite, network, history, database, counter, replies
<1>. QED
  BY <1>1, <1>2, <1>3, <1>4, ListUntouchedKeeps DEF PageInv, TypeOK

-----------------------------------------------------------------------------
(* The invariant and what follows from it                                   *)

LEMMA PageInvNext == PageInv /\ [Next]_vars => PageInv'
<1>. SUFFICES ASSUME PageInv, [Next]_vars PROVE PageInv'
  OBVIOUS
<1>1. CASE Tick \/ RefreshAfterBlur
  BY <1>1, RefreshCalledKeeps DEF Tick, RefreshAfterBlur
<1>2. CASE Page
  BY <1>2, ApplyKeeps, LoadFailsKeeps, RenderSelectedKeeps, MarkDoneKeeps, MarkFailsKeeps,
     PostAnsweredKeeps, PostFailsKeeps, ArchiveAnsweredKeeps DEF Page
<1>3. CASE Person
  BY <1>3, SelectEmailKeeps, CloseAndMarkUnreadKeeps, SwitchTabKeeps, FocusKeeps, TypeKeeps,
     BlurKeeps, SendKeeps, CloseTaskKeeps, ReplyStepKeeps DEF Person
<1>4. CASE Server
  BY <1>4, ServerListsKeeps, PostArrivesKeeps, ArchiveArrivesKeeps, OthersWriteKeeps DEF Server
<1>5. CASE UNCHANGED vars
  <2>1. /\ server' \in [Tasks -> Rows] /\ archived' \subseteq Tasks
        /\ post' \in Posts /\ closing' \in Posts /\ forms' \subseteq Tasks
        /\ reply' \in ReplyStates /\ events' \in 0..MaxEvents
        /\ UNCHANGED <<emails, unread, header, selected, tab, chat, card, cache, editing, pending,
                       timer, loads, marks, typed, atLoad, gone, skewed, shadowed>>
    BY <1>5 DEF vars, network, history, PageInv, TypeOK, database, counter, replies
  <2>. QED
    BY <2>1, ListUntouchedKeeps
<1>. QED
  BY <1>1, <1>2, <1>3, <1>4, <1>5 DEF Next

\* PageInv holds of every reachable state of the page, whatever is clicked, typed, lost or late.
THEOREM PageInvariant == Spec => []PageInv
BY PageInvInit, PageInvNext, PTL DEF Spec

\* The variables of the page keep their types, and what is bound to a list is in that list
\* (mail-common.js, mail-render-list.js, mail-chat.js).
THEOREM PageTypes == Spec => []TypeOK
<1>1. PageInv => TypeOK
  BY DEF PageInv
<1>. QED
  BY <1>1, PageInvariant, PTL

\* A draft that was not sent is in the cache, or a render of an older object shadowed it
\* (mail-chat.js:36, mail-common.js:146).
THEOREM DraftsAreKept == Spec => []DraftKept
<1>1. PageInv => DraftKept
  BY DEF PageInv
<1>. QED
  BY <1>1, PageInvariant, PTL

\* The counter in the header is right, or a rollback that was overtaken put it wrong
\* (mail-render-list.js:255).
THEOREM CounterIsExplained == Spec => []CounterExplained
<1>1. PageInv => CounterExplained
  BY DEF PageInv, CounterCounts, CounterExplained
<1>. QED
  BY <1>1, PageInvariant, PTL

\* What would be posted holds all that was typed until the list was last replaced
\* (mail-chat.js:331).
THEOREM PostsAreRecent == Spec => []PostedIsRecent
<1>1. PageInv => PostedIsRecent
  BY DEF PageInv, ListIsRecent, PostedIsRecent, Answerable
<1>. QED
  BY <1>1, PageInvariant, PTL

-----------------------------------------------------------------------------
(* Who edits is not disturbed                                               *)

\* Only an answer takes a list call away.
LEMMA CallsEnd ==
    ASSUME PageInv, Next, loads' \in Seq(Calls), Len(loads') < Len(loads)
    PROVE  Apply \/ LoadFails
<1>1. loads \in Seq(Calls) /\ Len(loads) \in Nat /\ loads' # loads
  BY LenProperties DEF PageInv, TypeOK
<1>2. ASSUME NEW call, loads' = Append(loads, call) PROVE FALSE
  <2>1. Len(loads') = Len(loads) + 1
    BY <1>1, <1>2
  <2>. QED
    BY <1>1, <2>1
<1>3. ~Tick /\ ~RefreshAfterBlur
  BY <1>1, <1>2 DEF Tick, RefreshAfterBlur, RefreshCalled
<1>4. ~ServerLists
  <2>1. SUFFICES ASSUME ServerLists PROVE FALSE
    OBVIOUS
  <2>2. PICK n \in DOMAIN loads :
          loads' = [loads EXCEPT ![n].answered = TRUE, ![n].rows = Listed]
    BY <2>1 DEF ServerLists
  <2>3. Len(loads') = Len(loads)
    <3>1. DOMAIN loads' = DOMAIN loads
      BY <2>2
    <3>2. DOMAIN loads = 1..Len(loads) /\ DOMAIN loads' = 1..Len(loads')
      BY <1>1, LenProperties
    <3>3. Len(loads') \in Nat
      BY LenProperties
    <3>. QED
      BY <1>1, <3>1, <3>2, <3>3
  <2>. QED
    BY <1>1, <2>3
<1>5. ~PostAnswered
  BY <1>1, <1>2 DEF PostAnswered
<1>6. /\ ~RenderSelected /\ ~MarkDone /\ ~MarkFails /\ ~PostFails /\ ~PostArrives /\ ~OthersWrite
      /\ ~ArchiveAnswered /\ ~ArchiveFails /\ ~ArchiveArrives
  BY <1>1 DEF RenderSelected, MarkDone, MarkFails, PostFails, PostArrives, OthersWrite,
     ArchiveAnswered, ArchiveFails, ArchiveArrives, network
<1>7. ~Person
  BY <1>1 DEF Person, SelectEmail, CloseAndMarkUnread, SwitchTab, Focus, Type, Blur, Send, CloseTask,
     OpenReply, UseReply, LeaveReply, CloseReply, Unreplied, network
<1>. QED
  BY <1>3, <1>4, <1>5, <1>6, <1>7 DEF Next, Page, Server

LEMMA RefreshLeavesInput ==
    ASSUME PageInv, Next, NEW n \in DOMAIN loads, ~loads[n].post, loads' = RemoveAt(loads, n),
           MaterialProtected
    PROVE  editing' /\ chat'.task = chat.task /\ TextIn(chat)' = TextIn(chat)
<1>1. /\ loads \in Seq(Calls) /\ DOMAIN loads = 1..Len(loads) /\ Len(loads) \in Nat
      /\ chat \in Objects /\ emails \in Lists
      /\ chat.live => chat.task \in DOMAIN emails
  BY LenProperties DEF PageInv, TypeOK
<1>2. loads' \in Seq(Calls) /\ Len(loads') < Len(loads)
  BY <1>1, RemoveAtProperties
<1>3. PICK m \in DOMAIN loads :
        /\ loads' = RemoveAt(loads, m)
        /\ \/ Show(loads[m], loads[m].rows, card)
           \/ Show(loads[m], <<>>, NoTask)
  BY <1>2, CallsEnd DEF Apply, Counts, LoadFails
<1>4. loads[m] = loads[n]
  <2>1. m <= n \/ n <= m
    BY <1>1
  <2>. QED
    BY <1>1, <1>3, <2>1, RemovedAreEqual
<1>5. chat' = Frozen(chat) /\ editing' = editing
  <2>1. PICK rows, shown : ShowAfterRefresh(loads[m].prev, rows, shown)
    BY <1>3, <1>4 DEF Show
  <2>. QED
    BY <2>1 DEF ShowAfterRefresh, ProtectedNow, Protected
<1>6. /\ ~chat'.live /\ chat'.task = chat.task /\ chat'.text = TextIn(chat)
  BY <1>1, <1>5, FrozenKeeps
<1>7. TextIn(chat)' = TextIn(chat)
  BY <1>6 DEF TextIn
<1>. QED
  BY <1>5, <1>6, <1>7 DEF MaterialProtected

\* An answered or failed refresh leaves the focus, the email and the text of an input that is
\* edited as they are (mail-init.js:83).
THEOREM TypingIsUndisturbed == Spec => TypingUndisturbed
<1>1. PageInv /\ [Next]_vars =>
        [(\E n \in DOMAIN loads : ~loads[n].post /\ loads' = RemoveAt(loads, n))
         /\ MaterialProtected
          => editing' /\ chat'.task = chat.task /\ TextIn(chat)' = TextIn(chat)]_vars
  BY RefreshLeavesInput
<1>. QED
  BY <1>1, PageInvariant, PTL DEF Spec, TypingUndisturbed

=============================================================================
