-------------------------- MODULE OrderSheetsProofs --------------------------
(* The loop over the documents of an order, for every order and dictionary: *)
(* its state is a function of the documents read so far.  With what the     *)
(* parser makes of one line (MaterialParserProofs) and the reader of one    *)
(* sheet this gives what an order's files and questions hold.               *)
EXTENDS OrderSheetsInvariants, MaterialParserProofs

-----------------------------------------------------------------------------
(* What depends on the order alone                                          *)

\* The order never changes.
LEMMA OrderStays ==
    ASSUME [Next]_vars PROVE order' = order
BY DEF Next, Open, ParseMaterials, Ask, Match, MakeFails, Save, SaveRefused, End, vars

LEMMA OfOrder ==
    ASSUME order' = order
    PROVE  /\ \A d : Readable(d)' <=> Readable(d)
           /\ \A d : ReadOf(d)' = ReadOf(d)
           /\ \A d : MaterialsOf(d)' = MaterialsOf(d)
           /\ \A d : PartsOf(d)' = PartsOf(d)
           /\ \A d : Blocks(d)' <=> Blocks(d)
           /\ \A n : ReadBefore(n)' = ReadBefore(n)
           /\ \A n : MaterialsUpTo(n)' = MaterialsUpTo(n)
           /\ \A n : PartsUpTo(n)' = PartsUpTo(n)
           /\ \A ps : Asked(ps)' = Asked(ps)
           /\ \A e : MatchedOnce(e)' = MatchedOnce(e)
           /\ \A d : OwnElements(d)' = OwnElements(d)
BY DEF Readable, ReadOf, MaterialsOf, PartsOf, Blocks, ReadBefore, MaterialsUpTo, PartsUpTo,
       Asked, MatchedOnce, Entry, OwnElements

LEMMA DocumentsType ==
    ASSUME DocumentsInOrder
    PROVE  /\ Len(order.docs) \in Nat \ {0}
           /\ DOMAIN order.docs = 1..Len(order.docs)
<1>1. order.docs \in Seq(Range(order.docs)) /\ order.docs # <<>>
  BY DEF DocumentsInOrder
<1>. QED
  BY <1>1, LenProperties, EmptySeq

\* The documents up to the next one, with it when it can be read.
LEMMA ReadOneMore ==
    ASSUME DocumentsInOrder, doc \in 1..Len(order.docs)
    PROVE  /\ ReadBefore(doc) = IF Readable(doc) THEN ReadBefore(doc - 1) \cup {doc}
                                ELSE ReadBefore(doc - 1)
           /\ PartsUpTo(doc) = IF Readable(doc) THEN PartsUpTo(doc - 1) \cup PartsOf(doc)
                               ELSE PartsUpTo(doc - 1)
           /\ MaterialsUpTo(doc) = IF Readable(doc) THEN MaterialsUpTo(doc - 1) \cup MaterialsOf(doc)
                                   ELSE MaterialsUpTo(doc - 1)
<1>1. DOMAIN order.docs = 1..Len(order.docs) /\ Len(order.docs) \in Nat
  BY DocumentsType
<1>2. 1..doc = (1..(doc - 1)) \cup {doc}
  BY <1>1
<1>3. ReadBefore(doc) = IF Readable(doc) THEN ReadBefore(doc - 1) \cup {doc}
                        ELSE ReadBefore(doc - 1)
  BY <1>1, <1>2 DEF ReadBefore
<1>. QED
  BY <1>3 DEF PartsUpTo, MaterialsUpTo

-----------------------------------------------------------------------------
(* One sheet                                                                *)

LEMMA SheetType ==
    ASSUME NEW T, NEW sheet, IsSheet(sheet, T)
    PROVE  /\ Len(sheet) \in Nat /\ DOMAIN sheet = 1..Len(sheet)
           /\ \A r \in DOMAIN sheet :
                /\ Len(sheet[r]) \in Nat /\ DOMAIN sheet[r] = 1..Len(sheet[r])
                /\ DOMAIN sheet[r] = DOMAIN sheet[1]
                /\ \A c \in DOMAIN sheet[r] : IsCell(sheet[r][c], T)
<1>1. sheet \in Seq(Range(sheet))
  BY DEF IsSheet
<1>2. ASSUME NEW r \in DOMAIN sheet
      PROVE  /\ sheet[r] \in Seq(Range(sheet[r])) /\ DOMAIN sheet[r] = DOMAIN sheet[1]
             /\ \A c \in DOMAIN sheet[r] : IsCell(sheet[r][c], T)
  BY DEF IsSheet
<1>3. Len(sheet) \in Nat /\ DOMAIN sheet = 1..Len(sheet)
  BY <1>1, LenProperties
<1>4. ASSUME NEW r \in DOMAIN sheet
      PROVE  Len(sheet[r]) \in Nat /\ DOMAIN sheet[r] = 1..Len(sheet[r])
  BY <1>2, LenProperties
<1>. QED
  BY <1>2, <1>3, <1>4

LEMMA HeaderOrderType ==
    /\ DOMAIN HeaderOrder = 1..7
    /\ \A t \in 1..7 : HeaderOrder[t] \in HeaderTypes
    /\ \A h \in HeaderTypes : \E t \in 1..7 : HeaderOrder[t] = h
    /\ \A t, u \in 1..7 : HeaderOrder[t] = HeaderOrder[u] => t = u
    /\ HeaderTypes = {"MAT", "WIDTH", "HEIGHT", "LENGTH", "AMOUNT", "BARCODE", "MARKING"}
BY DEF HeaderOrder, HeaderTypes, Range

\* The columns that have a header of one type, from left to right.
LEMMA ColumnsOfType ==
    ASSUME NEW T, NEW sheet, IsSheet(sheet, T), NEW r \in DOMAIN sheet, NEW h
    PROVE  /\ ColumnsOf(sheet, r, h) \in Seq(Nat)
           /\ Rising(ColumnsOf(sheet, r, h))
           /\ Members(ColumnsOf(sheet, r, h)) = {c \in DOMAIN sheet[r] : sheet[r][c].type = h}
<1>. DEFINE S == {c \in DOMAIN sheet[r] : sheet[r][c].type = h}
            n == Len(sheet[r])
<1>1. n \in Nat /\ S \cap 0..n = S
  BY SheetType
<1>. HIDE DEF S, n
<1>2. /\ Ascending(S, n) \in Seq(Nat) /\ Rising(Ascending(S, n))
      /\ Members(Ascending(S, n)) = S \cap 0..n
  BY <1>1, AscendingRises
<1>. QED
  BY <1>1, <1>2 DEF ColumnsOf, S, n

\* One column comes before another when its header does in columnrules1, or is left of it.
Before(sheet, r) ==
    {p \in Nat \X Nat :
        \E t, u \in 1..7 : /\ sheet[r][p[1]].type = HeaderOrder[t]
                           /\ sheet[r][p[2]].type = HeaderOrder[u]
                           /\ t < u \/ (t = u /\ p[1] < p[2])}

LEMMA HeaderColumnsType ==
    ASSUME NEW T, NEW sheet, IsSheet(sheet, T), NEW r \in DOMAIN sheet
    PROVE  /\ HeaderColumns(sheet, r) \in Seq(Nat)
           /\ Members(HeaderColumns(sheet, r)) =
                {c \in DOMAIN sheet[r] : sheet[r][c].type \in HeaderTypes}
           /\ InOrder(Before(sheet, r), HeaderColumns(sheet, r))
<1>. DEFINE ss == [t \in 1..7 |-> ColumnsOf(sheet, r, HeaderOrder[t])]
            R == Before(sheet, r)
<1>1. ss \in Seq(Seq(Nat)) /\ Len(ss) = 7
  <2>1. ss \in [1..7 -> Seq(Nat)]
    BY ColumnsOfType
  <2>. HIDE DEF ss
  <2>. QED
    BY <2>1, FunctionIsSeq
<1>2. \A t \in 1..7 : Members(ss[t]) = {c \in DOMAIN sheet[r] : sheet[r][c].type = HeaderOrder[t]}
  BY ColumnsOfType
<1>3. HeaderColumns(sheet, r) = FlattenSeq(ss)
  BY HeaderOrderType DEF HeaderColumns
<1>4. ASSUME NEW t \in 1..7 PROVE InOrder(R, ss[t])
  <2>1. ss[t] \in Seq(Nat) /\ Rising(ss[t])
    BY ColumnsOfType
  <2>. HIDE DEF ss
  <2>2. ASSUME NEW k \in 1..Len(ss[t])
        PROVE  ss[t][k] \in Nat /\ sheet[r][ss[t][k]].type = HeaderOrder[t]
    <3>1. ss[t][k] \in Members(ss[t])
      BY DEF Members
    <3>2. ss[t][k] \in Nat
      BY <2>1, LenProperties
    <3>. QED
      BY <1>2, <3>1, <3>2
  <2>3. ASSUME NEW k \in 1..Len(ss[t]), NEW l \in 1..Len(ss[t]), k < l
        PROVE  <<ss[t][k], ss[t][l]>> \in R
    <3>1. ss[t][k] < ss[t][l]
      BY <2>1, <2>3 DEF Rising
    <3>. QED
      BY <2>2, <3>1 DEF Before
  <2>. QED
    BY <2>3 DEF InOrder
<1>5. ASSUME NEW t \in 1..7, NEW u \in 1..7, t < u, NEW x \in Members(ss[t]), NEW y \in Members(ss[u])
      PROVE  <<x, y>> \in R
  <2>1. /\ x \in Nat /\ sheet[r][x].type = HeaderOrder[t]
        /\ y \in Nat /\ sheet[r][y].type = HeaderOrder[u]
    BY <1>2, SheetType
  <2>. QED
    BY <1>5, <2>1 DEF Before
<1>. HIDE DEF ss, R
<1>6. FlattenSeq(ss) \in Seq(Nat) /\ Members(FlattenSeq(ss)) = UNION {Members(ss[t]) : t \in 1..7}
  BY <1>1, FlattenMembers
<1>7. InOrder(R, FlattenSeq(ss))
  BY <1>1, <1>4, <1>5, FlattenInOrder
<1>8. UNION {Members(ss[t]) : t \in 1..7} = {c \in DOMAIN sheet[r] : sheet[r][c].type \in HeaderTypes}
  BY <1>2, HeaderOrderType
<1>. QED
  BY <1>3, <1>6, <1>7, <1>8 DEF R

\* header_variants, position by position.
IsVariant(v) ==
    /\ v \in Seq(HeaderTypes) /\ Len(v) \in 4..6
    /\ v[1] = "MAT" /\ v[4] = "AMOUNT"
    /\ \/ v[2] = "WIDTH" /\ v[3] \in {"HEIGHT", "LENGTH"}
       \/ v[2] = "LENGTH" /\ v[3] = "HEIGHT"
    /\ \A k \in 5..Len(v) : v[k] \in {"BARCODE", "MARKING"}
    /\ Len(v) = 6 => v[5] # v[6]

LEMMA VariantsAre ==
    ASSUME NEW v \in Variants
    PROVE  IsVariant(v)
<1>1. PICK sides \in {<<"MAT", "WIDTH", "HEIGHT", "AMOUNT">>,
                      <<"MAT", "WIDTH", "LENGTH", "AMOUNT">>,
                      <<"MAT", "LENGTH", "HEIGHT", "AMOUNT">>},
           extra \in {<<>>, <<"BARCODE">>, <<"MARKING">>,
                      <<"BARCODE", "MARKING">>, <<"MARKING", "BARCODE">>} :
           v = sides \o extra
  BY DEF Variants
<1>. DEFINE all == {"MAT", "WIDTH", "HEIGHT", "LENGTH", "AMOUNT", "BARCODE", "MARKING"}
<1>2. /\ sides \in Seq(all) /\ Len(sides) = 4
      /\ sides[1] = "MAT" /\ sides[4] = "AMOUNT"
      /\ \/ sides[2] = "WIDTH" /\ sides[3] \in {"HEIGHT", "LENGTH"}
         \/ sides[2] = "LENGTH" /\ sides[3] = "HEIGHT"
  <2>1. CASE sides = <<"MAT", "WIDTH", "HEIGHT", "AMOUNT">>
    BY <2>1
  <2>2. CASE sides = <<"MAT", "WIDTH", "LENGTH", "AMOUNT">>
    BY <2>2
  <2>3. CASE sides = <<"MAT", "LENGTH", "HEIGHT", "AMOUNT">>
    BY <2>3
  <2>. QED
    BY <2>1, <2>2, <2>3
<1>3. /\ extra \in Seq(all) /\ Len(extra) \in 0..2
      /\ \A k \in 1..Len(extra) : extra[k] \in {"BARCODE", "MARKING"}
      /\ Len(extra) = 2 => extra[1] # extra[2]
  <2>1. CASE extra = <<>>
    BY <2>1
  <2>2. CASE extra = <<"BARCODE">>
    BY <2>2
  <2>3. CASE extra = <<"MARKING">>
    BY <2>3
  <2>4. CASE extra = <<"BARCODE", "MARKING">>
    BY <2>4
  <2>5. CASE extra = <<"MARKING", "BARCODE">>
    BY <2>5
  <2>. QED
    BY <2>1, <2>2, <2>3, <2>4, <2>5
<1>. HIDE DEF all
<1>4. /\ v \in Seq(all) /\ Len(v) = Len(sides) + Len(extra)
      /\ \A k \in 1..Len(sides) + Len(extra) :
            v[k] = IF k <= Len(sides) THEN sides[k] ELSE extra[k - Len(sides)]
  <2>1. v = sides \o extra
    BY <1>1
  <2>2. sides \in Seq(all) /\ extra \in Seq(all)
    BY <1>2, <1>3
  <2>. QED
    BY <2>1, <2>2, ConcatProperties
<1>5. v[1] = sides[1] /\ v[2] = sides[2] /\ v[3] = sides[3] /\ v[4] = sides[4]
  <2>1. \A k \in 1..4 : v[k] = sides[k]
    BY <1>2, <1>3, <1>4
  <2>. QED
    BY <2>1
<1>6. \A k \in 5..Len(v) : k - 4 \in 1..Len(extra) /\ v[k] = extra[k - 4]
  BY <1>2, <1>3, <1>4
<1>7. Len(v) \in 4..6 /\ (Len(v) = 6 => Len(extra) = 2 /\ v[5] = extra[1] /\ v[6] = extra[2])
  <2>1. Len(v) \in 4..6 /\ Len(extra) = Len(v) - 4
    BY <1>2, <1>3, <1>4
  <2>2. ASSUME Len(v) = 6 PROVE v[5] = extra[5 - 4] /\ v[6] = extra[6 - 4]
    BY <1>6, <2>2
  <2>3. 5 - 4 = 1 /\ 6 - 4 = 2
    OBVIOUS
  <2>. QED
    BY <2>1, <2>2, <2>3
<1>8. v \in Seq(HeaderTypes)
  BY <1>4, HeaderOrderType DEF all
<1>. QED
  BY <1>2, <1>3, <1>5, <1>6, <1>7, <1>8 DEF IsVariant

LEMMA VariantType ==
    ASSUME NEW v, IsVariant(v)
    PROVE  /\ Len(v) \in Nat /\ DOMAIN v = 1..Len(v) /\ Range(v) \subseteq HeaderTypes
           /\ \A k, l \in DOMAIN v : v[k] = v[l] => k = l
           /\ \A h \in Range(v) : \E k \in DOMAIN v : v[k] = h
<1>1. Len(v) \in Nat /\ DOMAIN v = 1..Len(v) /\ \A k \in 1..Len(v) : v[k] \in HeaderTypes
  BY LenProperties DEF IsVariant
<1>2. ASSUME NEW k \in 1..Len(v), NEW l \in 1..Len(v), v[k] = v[l] PROVE k = l
  <2>1. k \in {1, 2, 3, 4} \/ k \in 5..Len(v)
    BY <1>1
  <2>2. l \in {1, 2, 3, 4} \/ l \in 5..Len(v)
    BY <1>1
  <2>3. k \in 5..Len(v) /\ l \in 5..Len(v) /\ k # l => Len(v) = 6 /\ k \in {5, 6} /\ l \in {5, 6}
    BY DEF IsVariant
  <2>. QED
    BY <1>2, <2>1, <2>2, <2>3 DEF IsVariant
<1>. QED
  BY <1>1, <1>2 DEF Range

\* The rows with headers are those with a cell that is one.
LEMMA HeaderRowsAreHeaded ==
    ASSUME NEW T, NEW sheet, IsSheet(sheet, T)
    PROVE  HeaderRows(sheet) = HeadedRows(sheet)
<1>1. ASSUME NEW r \in DOMAIN sheet
      PROVE  HeaderColumns(sheet, r) # <<>> <=> HeadersIn(sheet, r) # {}
  <2>1. /\ HeaderColumns(sheet, r) \in Seq(Nat)
        /\ Members(HeaderColumns(sheet, r)) = {c \in DOMAIN sheet[r] : sheet[r][c].type \in HeaderTypes}
    BY HeaderColumnsType
  <2>2. HeaderColumns(sheet, r) = <<>> <=> Members(HeaderColumns(sheet, r)) = {}
    BY <2>1, MembersEmpty
  <2>. QED
    BY <2>1, <2>2 DEF HeadersIn
<1>. QED
  BY <1>1 DEF HeaderRows, HeadedRows

-----------------------------------------------------------------------------
(* What _parse_sheet reads from it                                          *)

Reads(sheet) == HeaderRows(sheet) # {} /\ MatchedVariants(sheet) # {}
FirstHeader(sheet) == Min(HeaderRows(sheet))
VariantOf(sheet) == CHOOSE v \in MatchedVariants(sheet) : TRUE
TargetColumns(sheet) == HeaderColumns(sheet, FirstHeader(sheet))
CompleteRows(sheet) ==
    {r \in DOMAIN sheet :
        r > FirstHeader(sheet) /\ FullRow(sheet, r, TargetColumns(sheet), VariantOf(sheet))}
RowsOf(sheet) == Ascending(CompleteRows(sheet), Len(sheet))
PlaceOf(variant, h) == CHOOSE k \in DOMAIN variant : variant[k] = h

LEMMA ReadSheetIs ==
    ASSUME NEW sheet
    PROVE  /\ ~Reads(sheet) => ReadSheet(sheet) = NothingRead
           /\ Reads(sheet) => ReadSheet(sheet) =
                [headers |-> Range(VariantOf(sheet)),
                 rows |-> [i \in DOMAIN RowsOf(sheet) |->
                            [from |-> RowsOf(sheet)[i],
                             at |-> [h \in Range(VariantOf(sheet)) |->
                                sheet[RowsOf(sheet)[i]][TargetColumns(sheet)[
                                    PlaceOf(VariantOf(sheet), h)]].value]]]]
BY DEF Reads, ReadSheet, FirstHeader, VariantOf, TargetColumns, CompleteRows, RowsOf, PlaceOf

LEMMA SheetRead ==
    ASSUME NEW T, NEW sheet, IsSheet(sheet, T), Reads(sheet)
    PROVE  /\ FirstHeader(sheet) \in HeaderRows(sheet) /\ FirstHeader(sheet) \in DOMAIN sheet
           /\ \A r \in HeaderRows(sheet) : FirstHeader(sheet) <= r
           /\ VariantOf(sheet) \in Variants
           /\ \A r \in HeaderRows(sheet) : Types(sheet, r) = VariantOf(sheet)
           /\ DOMAIN TargetColumns(sheet) = DOMAIN VariantOf(sheet)
           /\ \A k \in DOMAIN VariantOf(sheet) :
                /\ TargetColumns(sheet)[k] \in DOMAIN sheet[FirstHeader(sheet)]
                /\ sheet[FirstHeader(sheet)][TargetColumns(sheet)[k]].type = VariantOf(sheet)[k]
           /\ RowsOf(sheet) \in Seq(Nat) /\ Members(RowsOf(sheet)) = CompleteRows(sheet)
<1>1. HeaderRows(sheet) \subseteq 0..Len(sheet) /\ Len(sheet) \in Nat
  BY SheetType DEF HeaderRows
<1>2. /\ FirstHeader(sheet) \in HeaderRows(sheet)
      /\ \A r \in HeaderRows(sheet) : FirstHeader(sheet) <= r
  BY <1>1, MinMax DEF FirstHeader, Reads
<1>3. FirstHeader(sheet) \in DOMAIN sheet
  BY <1>2 DEF HeaderRows
<1>4. /\ VariantOf(sheet) \in Variants
      /\ \A r \in HeaderRows(sheet) : Types(sheet, r) = VariantOf(sheet)
  BY DEF VariantOf, Reads, MatchedVariants
<1>5. /\ TargetColumns(sheet) \in Seq(Nat)
      /\ Members(TargetColumns(sheet)) \subseteq DOMAIN sheet[FirstHeader(sheet)]
  BY <1>3, HeaderColumnsType DEF TargetColumns
<1>6. VariantOf(sheet) = [k \in DOMAIN TargetColumns(sheet) |->
                            sheet[FirstHeader(sheet)][TargetColumns(sheet)[k]].type]
  BY <1>2, <1>4 DEF Types, TargetColumns
<1>7. \A k \in DOMAIN TargetColumns(sheet) : TargetColumns(sheet)[k] \in Members(TargetColumns(sheet))
  BY <1>5, LenProperties DEF Members
<1>8. CompleteRows(sheet) \cap 0..Len(sheet) = CompleteRows(sheet)
  BY <1>1, SheetType DEF CompleteRows
<1>9. RowsOf(sheet) \in Seq(Nat) /\ Members(RowsOf(sheet)) = CompleteRows(sheet)
  BY <1>1, <1>8, AscendingRises DEF RowsOf
<1>10. \A k \in DOMAIN VariantOf(sheet) :
          /\ TargetColumns(sheet)[k] \in DOMAIN sheet[FirstHeader(sheet)]
          /\ sheet[FirstHeader(sheet)][TargetColumns(sheet)[k]].type = VariantOf(sheet)[k]
  BY <1>5, <1>6, <1>7
<1>11. DOMAIN TargetColumns(sheet) = DOMAIN VariantOf(sheet)
  BY <1>6
<1>. QED
  BY <1>2, <1>3, <1>4, <1>9, <1>10, <1>11

\* A value is that of a cell of its row, of a type the column permits.
LEMMA ReadCell ==
    ASSUME NEW T, NEW sheet, IsSheet(sheet, T), Reads(sheet), NEW i \in DOMAIN RowsOf(sheet),
           NEW h \in Range(VariantOf(sheet))
    PROVE  \E c \in DOMAIN sheet[FirstHeader(sheet)] :
             /\ RowsOf(sheet)[i] \in DOMAIN sheet /\ c \in DOMAIN sheet[RowsOf(sheet)[i]]
             /\ c = TargetColumns(sheet)[PlaceOf(VariantOf(sheet), h)]
             /\ sheet[FirstHeader(sheet)][c].type = h
             /\ IsCell(sheet[RowsOf(sheet)[i]][c], T)
             /\ sheet[RowsOf(sheet)[i]][c].type \in Permitted(h)
<1>. DEFINE v == VariantOf(sheet)
            cols == TargetColumns(sheet)
            r == RowsOf(sheet)[i]
            k == PlaceOf(v, h)
<1>1. k \in DOMAIN v /\ v[k] = h
  <2>1. \E l \in DOMAIN v : v[l] = h
    BY SheetRead, VariantsAre, VariantType
  <2>. QED
    BY <2>1 DEF PlaceOf
<1>2. r \in CompleteRows(sheet)
  <2>1. RowsOf(sheet) \in Seq(Nat) /\ Members(RowsOf(sheet)) = CompleteRows(sheet)
    BY SheetRead
  <2>2. DOMAIN RowsOf(sheet) = 1..Len(RowsOf(sheet))
    BY <2>1, LenProperties
  <2>3. r \in Members(RowsOf(sheet))
    BY <2>2 DEF Members
  <2>. QED
    BY <2>1, <2>3
<1>3. r \in DOMAIN sheet /\ sheet[r][cols[k]].type \in Permitted(v[k])
  BY <1>1, <1>2 DEF CompleteRows, FullRow
<1>4. /\ FirstHeader(sheet) \in DOMAIN sheet
      /\ cols[k] \in DOMAIN sheet[FirstHeader(sheet)]
      /\ sheet[FirstHeader(sheet)][cols[k]].type = v[k]
  BY <1>1, SheetRead
<1>5. DOMAIN sheet[r] = DOMAIN sheet[FirstHeader(sheet)] /\ \A c \in DOMAIN sheet[r] : IsCell(sheet[r][c], T)
  BY <1>3, <1>4, SheetType
<1>. HIDE DEF v, cols, r, k
<1>6. IsCell(sheet[r][cols[k]], T)
  BY <1>4, <1>5
<1>7. /\ cols[k] \in DOMAIN sheet[FirstHeader(sheet)] /\ cols[k] \in DOMAIN sheet[r]
      /\ sheet[FirstHeader(sheet)][cols[k]].type = h /\ sheet[r][cols[k]].type \in Permitted(h)
  BY <1>1, <1>3, <1>4, <1>5
<1>. QED
  BY <1>3, <1>6, <1>7 DEF v, cols, r, k

\* The materials of a sheet are values of its cells with a text.
LEMMA MaterialsAreTexts ==
    ASSUME NEW T, NEW sheet, IsSheet(sheet, T)
    PROVE  Materials(ReadSheet(sheet)) \subseteq T
<1>1. CASE ~Reads(sheet)
  BY <1>1, ReadSheetIs DEF NothingRead, Materials
<1>2. CASE Reads(sheet)
  <2>1. "MAT" \in Range(VariantOf(sheet))
    <3>1. IsVariant(VariantOf(sheet))
      BY <1>2, SheetRead, VariantsAre
    <3>2. 1 \in DOMAIN VariantOf(sheet)
      BY <3>1, VariantType DEF IsVariant
    <3>. QED
      BY <3>1, <3>2 DEF IsVariant, Range
  <2>2. ASSUME NEW i \in DOMAIN RowsOf(sheet)
        PROVE  sheet[RowsOf(sheet)[i]][TargetColumns(sheet)[PlaceOf(VariantOf(sheet), "MAT")]].value \in T
    <3>1. PICK c : /\ c = TargetColumns(sheet)[PlaceOf(VariantOf(sheet), "MAT")]
                   /\ IsCell(sheet[RowsOf(sheet)[i]][c], T)
                   /\ sheet[RowsOf(sheet)[i]][c].type \in Permitted("MAT")
      BY <1>2, <2>1, ReadCell
    <3>2. Permitted("MAT") = {"TEXT"}
      BY DEF Permitted
    <3>. QED
      BY <3>1, <3>2 DEF IsCell
  <2>3. /\ DOMAIN ReadSheet(sheet).rows = DOMAIN RowsOf(sheet)
        /\ \A i \in DOMAIN RowsOf(sheet) : ReadSheet(sheet).rows[i].at["MAT"] =
             sheet[RowsOf(sheet)[i]][TargetColumns(sheet)[PlaceOf(VariantOf(sheet), "MAT")]].value
    BY <1>2, <2>1, ReadSheetIs
  <2>. QED
    BY <2>2, <2>3 DEF Materials
<1>. QED
  BY <1>1, <1>2

-----------------------------------------------------------------------------
(* Which sheets are read                                                    *)

\* The place of a header in columnrules1.
Rank(h) == CHOOSE t \in 1..7 : HeaderOrder[t] = h
RankRising(v) == \A k, l \in 1..Len(v) : k < l => Rank(v[k]) < Rank(v[l])

LEMMA Ranks ==
    /\ \A t \in 1..7 : Rank(HeaderOrder[t]) = t
    /\ \A h \in HeaderTypes : Rank(h) \in 1..7 /\ HeaderOrder[Rank(h)] = h
    /\ Rank("MAT") = 1 /\ Rank("WIDTH") = 2 /\ Rank("HEIGHT") = 3 /\ Rank("LENGTH") = 4
    /\ Rank("AMOUNT") = 5 /\ Rank("BARCODE") = 6 /\ Rank("MARKING") = 7
<1>1. \A t \in 1..7 : Rank(HeaderOrder[t]) = t
  BY HeaderOrderType DEF Rank
<1>2. \A h \in HeaderTypes : Rank(h) \in 1..7 /\ HeaderOrder[Rank(h)] = h
  BY HeaderOrderType DEF Rank
<1>3. /\ HeaderOrder[1] = "MAT" /\ HeaderOrder[2] = "WIDTH" /\ HeaderOrder[3] = "HEIGHT"
      /\ HeaderOrder[4] = "LENGTH" /\ HeaderOrder[5] = "AMOUNT" /\ HeaderOrder[6] = "BARCODE"
      /\ HeaderOrder[7] = "MARKING"
  BY DEF HeaderOrder
<1>. HIDE DEF Rank
<1>. QED
  BY <1>1, <1>2, <1>3

\* There is one way to put headers in the order of columnrules1.
LEMMA RankUnique ==
    ASSUME NEW a \in Seq(HeaderTypes), NEW b \in Seq(HeaderTypes), RankRising(a), RankRising(b),
           Members(a) = Members(b)
    PROVE  a = b
<1>. DEFINE ra == [k \in 1..Len(a) |-> Rank(a[k])]
            rb == [k \in 1..Len(b) |-> Rank(b[k])]
<1>1. /\ Len(a) \in Nat /\ \A k \in 1..Len(a) : a[k] \in HeaderTypes
      /\ Len(b) \in Nat /\ \A k \in 1..Len(b) : b[k] \in HeaderTypes
  BY LenProperties
<1>2. /\ ra \in [1..Len(a) -> Nat] /\ \A k \in 1..Len(a) : ra[k] = Rank(a[k])
      /\ rb \in [1..Len(b) -> Nat] /\ \A k \in 1..Len(b) : rb[k] = Rank(b[k])
  <2>1. \A h \in HeaderTypes : Rank(h) \in Nat
    BY Ranks
  <2>2. ra \in [1..Len(a) -> Nat]
    BY <1>1, <2>1
  <2>3. rb \in [1..Len(b) -> Nat]
    BY <1>1, <2>1
  <2>. QED
    BY <2>2, <2>3
<1>. HIDE DEF ra, rb
<1>3. ra \in Seq(Nat) /\ Len(ra) = Len(a) /\ rb \in Seq(Nat) /\ Len(rb) = Len(b)
  BY <1>1, <1>2, FunctionIsSeq
<1>4. Rising(ra) /\ Rising(rb)
  BY <1>2, <1>3 DEF Rising, RankRising
<1>5. Members(ra) = {Rank(h) : h \in Members(a)} /\ Members(rb) = {Rank(h) : h \in Members(b)}
  <2>1. ASSUME NEW x PROVE x \in Members(ra) <=> \E k \in 1..Len(a) : x = Rank(a[k])
    BY <1>2, <1>3 DEF Members
  <2>2. ASSUME NEW x PROVE x \in Members(rb) <=> \E k \in 1..Len(b) : x = Rank(b[k])
    BY <1>2, <1>3 DEF Members
  <2>3. Members(ra) = {Rank(h) : h \in Members(a)}
    BY <2>1 DEF Members
  <2>4. Members(rb) = {Rank(h) : h \in Members(b)}
    BY <2>2 DEF Members
  <2>. QED
    BY <2>3, <2>4
<1>6. ra = rb
  BY <1>3, <1>4, <1>5, RisingUnique
<1>7. Len(a) = Len(b) /\ \A k \in 1..Len(a) : Rank(a[k]) = Rank(b[k])
  BY <1>2, <1>3, <1>6
<1>8. \A k \in 1..Len(a) : a[k] = b[k]
  BY <1>1, <1>7, Ranks
<1>. QED
  BY <1>7, <1>8, SeqEqual

LEMMA Canonical ==
    ASSUME NEW side \in {"HEIGHT", "LENGTH"}, NEW extra \in SUBSET {"BARCODE", "MARKING"}
    PROVE  \E v \in Variants : /\ v \in Seq(HeaderTypes) /\ RankRising(v)
                               /\ Members(v) = {"MAT", "WIDTH", "AMOUNT", side} \cup extra
<1>. DEFINE sides == <<"MAT", "WIDTH", side, "AMOUNT">>
            rest == CASE extra = {} -> <<>>
                      [] extra = {"BARCODE"} -> <<"BARCODE">>
                      [] extra = {"MARKING"} -> <<"MARKING">>
                      [] OTHER -> <<"BARCODE", "MARKING">>
            v == sides \o rest
<1>1. /\ sides \in Seq(HeaderTypes) /\ Len(sides) = 4
      /\ sides[1] = "MAT" /\ sides[2] = "WIDTH" /\ sides[3] = side /\ sides[4] = "AMOUNT"
  BY HeaderOrderType
<1>2. \/ extra = {} \/ extra = {"BARCODE"} \/ extra = {"MARKING"} \/ extra = {"BARCODE", "MARKING"}
  OBVIOUS
<1>3. /\ rest \in Seq(HeaderTypes) /\ Len(rest) \in 0..2
      /\ \A k \in 1..Len(rest) : rest[k] \in {"BARCODE", "MARKING"}
      /\ Len(rest) = 2 => rest[1] = "BARCODE" /\ rest[2] = "MARKING"
      /\ extra = {rest[k] : k \in 1..Len(rest)}
      /\ rest \in {<<>>, <<"BARCODE">>, <<"MARKING">>, <<"BARCODE", "MARKING">>, <<"MARKING", "BARCODE">>}
  <2>1. CASE extra = {}
    <3>1. rest = <<>>
      BY <2>1
    <3>. QED
      BY <2>1, <3>1, HeaderOrderType
  <2>2. CASE extra = {"BARCODE"}
    <3>1. rest = <<"BARCODE">>
      BY <2>2
    <3>. HIDE DEF rest
    <3>. QED
      BY <2>2, <3>1, HeaderOrderType
  <2>3. CASE extra = {"MARKING"}
    <3>1. rest = <<"MARKING">>
      BY <2>3
    <3>. HIDE DEF rest
    <3>. QED
      BY <2>3, <3>1, HeaderOrderType
  <2>4. CASE extra = {"BARCODE", "MARKING"}
    <3>1. rest = <<"BARCODE", "MARKING">>
      BY <2>4
    <3>. HIDE DEF rest
    <3>2. Len(rest) = 2 /\ rest[1] = "BARCODE" /\ rest[2] = "MARKING" /\ rest \in Seq(HeaderTypes)
      BY <3>1, HeaderOrderType
    <3>3. 1..2 = {1, 2}
      OBVIOUS
    <3>. QED
      BY <2>4, <3>1, <3>2, <3>3
  <2>. QED
    BY <1>2, <2>1, <2>2, <2>3, <2>4
<1>4. v \in Variants
  <2>. DEFINE A == {<<"MAT", "WIDTH", "HEIGHT", "AMOUNT">>,
                    <<"MAT", "WIDTH", "LENGTH", "AMOUNT">>,
                    <<"MAT", "LENGTH", "HEIGHT", "AMOUNT">>}
              B == {<<>>, <<"BARCODE">>, <<"MARKING">>,
                    <<"BARCODE", "MARKING">>, <<"MARKING", "BARCODE">>}
  <2>1. sides \in A
    OBVIOUS
  <2>2. rest \in B
    BY <1>3
  <2>3. Variants = {a \o b : a \in A, b \in B}
    BY DEF Variants
  <2>. HIDE DEF A, B, sides, rest
  <2>. QED
    BY <2>1, <2>2, <2>3
<1>10. sides \in Seq(HeaderTypes) /\ rest \in Seq(HeaderTypes) /\ v = sides \o rest
  BY <1>1, <1>3
<1>11. Len(rest) \in 0..2 /\ Len(sides) = 4
  BY <1>1, <1>3
<1>. HIDE DEF sides, rest, v
<1>5. v \in Seq(HeaderTypes) /\ Len(v) = 4 + Len(rest)
      /\ \A k \in 1..4 + Len(rest) : v[k] = IF k <= 4 THEN sides[k] ELSE rest[k - 4]
  <2>1. v \in Seq(HeaderTypes) /\ Len(v) = Len(sides) + Len(rest)
        /\ \A k \in 1..Len(sides) + Len(rest) :
                v[k] = IF k <= Len(sides) THEN sides[k] ELSE rest[k - Len(sides)]
    BY <1>10, ConcatProperties
  <2>. QED
    BY <1>11, <2>1
<1>6. /\ v[1] = "MAT" /\ v[2] = "WIDTH" /\ v[3] = side /\ v[4] = "AMOUNT"
      /\ \A k \in 5..Len(v) : v[k] = rest[k - 4] /\ v[k] \in {"BARCODE", "MARKING"}
      /\ Len(v) = 6 => v[5] = "BARCODE" /\ v[6] = "MARKING"
      /\ Len(v) \in 4..6
  <2>1. v[1] = sides[1] /\ v[2] = sides[2] /\ v[3] = sides[3] /\ v[4] = sides[4] /\ Len(v) \in 4..6
    BY <1>3, <1>5
  <2>2. ASSUME NEW k \in 5..Len(v) PROVE k - 4 \in 1..Len(rest) /\ v[k] = rest[k - 4]
    BY <1>3, <1>5
  <2>3. ASSUME Len(v) = 6 PROVE Len(rest) = 2 /\ v[5] = rest[1] /\ v[6] = rest[2]
    <3>1. Len(rest) = 2 /\ 5 \in 5..Len(v) /\ 6 \in 5..Len(v) /\ 5 - 4 = 1 /\ 6 - 4 = 2
      <4>1. Len(v) = 4 + Len(rest)
        BY <1>5
      <4>2. \A m, n \in Int : n = 6 /\ n = 4 + m => m = 2
        OBVIOUS
      <4>3. Len(v) \in Int /\ Len(rest) \in Int
        BY <1>5, <1>11, LenProperties
      <4>4. Len(rest) = 2
        BY <2>3, <4>1, <4>2, <4>3
      <4>5. 5 \in 5..6 /\ 6 \in 5..6 /\ 5 - 4 = 1 /\ 6 - 4 = 2
        OBVIOUS
      <4>. QED
        BY <2>3, <4>4, <4>5
    <3>2. v[5] = rest[5 - 4] /\ v[6] = rest[6 - 4]
      BY <2>2, <3>1
    <3>. QED
      BY <3>1, <3>2
  <2>. QED
    BY <1>1, <1>3, <2>1, <2>2, <2>3
<1>7. RankRising(v)
  <2>1. ASSUME NEW k \in 1..Len(v), NEW l \in 1..Len(v), k < l
        PROVE  Rank(v[k]) < Rank(v[l])
    <3>0. Len(v) \in 4..6
      BY <1>6
    <3>1. k \in {1, 2, 3, 4, 5, 6} /\ l \in {1, 2, 3, 4, 5, 6}
      <4>1. \A n \in 4..6 : \A x \in 1..n : x \in {1, 2, 3, 4, 5, 6}
        OBVIOUS
      <4>. QED
        BY <3>0, <4>1
    <3>2. /\ Rank(v[1]) = 1 /\ Rank(v[2]) = 2 /\ Rank(v[3]) \in {3, 4} /\ Rank(v[4]) = 5
          /\ Len(v) >= 5 => Rank(v[5]) \in {6, 7}
          /\ Len(v) = 6 => Rank(v[5]) = 6 /\ Rank(v[6]) = 7
      BY <1>6, Ranks
    <3>. QED
      BY <1>6, <2>1, <3>1, <3>2
  <2>. QED
    BY <2>1 DEF RankRising
<1>8. Members(v) = {"MAT", "WIDTH", "AMOUNT", side} \cup extra
  <2>1. Members(v) \subseteq {"MAT", "WIDTH", "AMOUNT", side} \cup extra
    <3>1. ASSUME NEW k \in 1..Len(v) PROVE v[k] \in {"MAT", "WIDTH", "AMOUNT", side} \cup extra
      <4>1. k \in {1, 2, 3, 4} \/ k \in 5..Len(v)
        BY <1>6
      <4>2. ASSUME k \in 5..Len(v) PROVE v[k] \in extra
        <5>1. k - 4 \in 1..Len(rest) /\ v[k] = rest[k - 4]
          BY <1>3, <1>5, <1>6, <4>2
        <5>. QED
          BY <1>3, <5>1
      <4>. QED
        BY <1>6, <4>1, <4>2
    <3>. QED
      BY <3>1 DEF Members
  <2>2. {"MAT", "WIDTH", "AMOUNT", side} \subseteq Members(v)
    <3>1. 1 \in 1..Len(v) /\ 2 \in 1..Len(v) /\ 3 \in 1..Len(v) /\ 4 \in 1..Len(v)
      BY <1>6
    <3>. QED
      BY <1>6, <3>1 DEF Members
  <2>3. ASSUME NEW k \in 1..Len(rest) PROVE rest[k] \in Members(v)
    <3>1. k + 4 \in 1..Len(v) /\ k + 4 \in 5..Len(v) /\ (k + 4) - 4 = k
      BY <1>3, <1>5
    <3>2. v[k + 4] = rest[k]
      BY <1>6, <3>1
    <3>. QED
      BY <3>1, <3>2 DEF Members
  <2>. QED
    BY <1>3, <2>1, <2>2, <2>3
<1>. QED
  BY <1>4, <1>5, <1>7, <1>8

\* The headers of a row in the order they are merged in.
LEMMA TypesOfRow ==
    ASSUME NEW T, NEW sheet, IsSheet(sheet, T), NEW r \in DOMAIN sheet
    PROVE  /\ Types(sheet, r) \in Seq(HeaderTypes)
           /\ Len(Types(sheet, r)) = Len(HeaderColumns(sheet, r))
           /\ \A k \in 1..Len(Types(sheet, r)) :
                /\ HeaderColumns(sheet, r)[k] \in DOMAIN sheet[r]
                /\ Types(sheet, r)[k] = sheet[r][HeaderColumns(sheet, r)[k]].type
           /\ Members(Types(sheet, r)) = HeadersIn(sheet, r)
           /\ \A k, l \in 1..Len(Types(sheet, r)) : k < l =>
                \/ Rank(Types(sheet, r)[k]) < Rank(Types(sheet, r)[l])
                \/ /\ Types(sheet, r)[k] = Types(sheet, r)[l]
                   /\ HeaderColumns(sheet, r)[k] < HeaderColumns(sheet, r)[l]
<1>. DEFINE cols == HeaderColumns(sheet, r)
            types == Types(sheet, r)
<1>1. /\ cols \in Seq(Nat)
      /\ Members(cols) = {c \in DOMAIN sheet[r] : sheet[r][c].type \in HeaderTypes}
      /\ InOrder(Before(sheet, r), cols)
  BY HeaderColumnsType
<1>2. types = [k \in DOMAIN cols |-> sheet[r][cols[k]].type]
  BY DEF Types
<1>. HIDE DEF cols, types
<1>3. DOMAIN cols = 1..Len(cols) /\ Len(cols) \in Nat
  BY <1>1, LenProperties
<1>4. \A k \in 1..Len(cols) : cols[k] \in DOMAIN sheet[r] /\ sheet[r][cols[k]].type \in HeaderTypes
  <2>1. \A k \in 1..Len(cols) : cols[k] \in Members(cols)
    BY DEF Members
  <2>. QED
    BY <1>1, <2>1
<1>5. types \in Seq(HeaderTypes) /\ Len(types) = Len(cols)
  <2>1. types \in [1..Len(cols) -> HeaderTypes]
    BY <1>2, <1>3, <1>4
  <2>. QED
    BY <1>3, <2>1, FunctionIsSeq
<1>6. \A k \in 1..Len(cols) : types[k] = sheet[r][cols[k]].type
  BY <1>2, <1>3
<1>7. Members(types) = HeadersIn(sheet, r)
  <2>1. \A k \in 1..Len(cols) : types[k] \in HeadersIn(sheet, r)
    BY <1>4, <1>6 DEF HeadersIn
  <2>2. ASSUME NEW h \in HeadersIn(sheet, r) PROVE h \in Members(types)
    <3>1. PICK c \in DOMAIN sheet[r] : sheet[r][c].type = h /\ h \in HeaderTypes
      BY DEF HeadersIn
    <3>2. c \in Members(cols)
      BY <1>1, <3>1
    <3>3. PICK k \in 1..Len(cols) : cols[k] = c
      BY <3>2 DEF Members
    <3>. QED
      BY <1>5, <1>6, <3>1, <3>3 DEF Members
  <2>. QED
    BY <1>5, <2>1, <2>2 DEF Members
<1>8. ASSUME NEW k \in 1..Len(cols), NEW l \in 1..Len(cols), k < l
      PROVE  Rank(types[k]) < Rank(types[l]) \/ (types[k] = types[l] /\ cols[k] < cols[l])
  <2>1. <<cols[k], cols[l]>> \in Before(sheet, r)
    BY <1>1, <1>8 DEF InOrder
  <2>2. PICK t \in 1..7, u \in 1..7 : /\ types[k] = HeaderOrder[t] /\ types[l] = HeaderOrder[u]
                                      /\ t < u \/ (t = u /\ cols[k] < cols[l])
    BY <1>6, <2>1 DEF Before
  <2>. QED
    BY <2>2, Ranks
<1>. QED
  BY <1>4, <1>5, <1>6, <1>7, <1>8 DEF cols, types

\* A row that fits a variant has each of its headers once, and is understood.
LEMMA RowOfVariant ==
    ASSUME NEW T, NEW sheet, IsSheet(sheet, T), NEW r \in DOMAIN sheet, NEW v,
           IsVariant(v), Types(sheet, r) = v
    PROVE  /\ NoneTwice(sheet, r)
           /\ HeadersIn(sheet, r) = Range(v)
           /\ Range(v) \in UnderstoodHeaders
<1>. DEFINE cols == HeaderColumns(sheet, r)
<1>1. /\ Len(v) \in Nat /\ DOMAIN v = 1..Len(v) /\ Range(v) = Members(v)
      /\ \A k, l \in 1..Len(v) : v[k] = v[l] => k = l
  BY VariantType DEF Range, Members
<1>2. /\ Len(cols) = Len(v)
      /\ \A k \in 1..Len(v) : cols[k] \in DOMAIN sheet[r] /\ v[k] = sheet[r][cols[k]].type
      /\ HeadersIn(sheet, r) = Members(v)
      /\ \A k, l \in 1..Len(v) : k < l => Rank(v[k]) < Rank(v[l]) \/ v[k] = v[l]
  BY TypesOfRow
<1>3. Members(cols) = {c \in DOMAIN sheet[r] : sheet[r][c].type \in HeaderTypes}
  BY HeaderColumnsType
<1>. HIDE DEF cols
<1>4. NoneTwice(sheet, r)
  <2>1. ASSUME NEW c \in DOMAIN sheet[r], NEW d \in DOMAIN sheet[r], sheet[r][c].type \in HeaderTypes,
               sheet[r][c].type = sheet[r][d].type
        PROVE  c = d
    <3>1. c \in Members(cols) /\ d \in Members(cols)
      BY <1>3, <2>1
    <3>2. PICK k \in 1..Len(v), l \in 1..Len(v) : cols[k] = c /\ cols[l] = d
      BY <1>2, <3>1 DEF Members
    <3>3. v[k] = v[l]
      BY <1>2, <2>1, <3>2
    <3>. QED
      BY <1>1, <3>2, <3>3
  <2>. QED
    BY <2>1 DEF NoneTwice
<1>5. v[2] = "WIDTH" /\ v[3] \in {"HEIGHT", "LENGTH"}
  <2>1. SUFFICES ASSUME v[2] = "LENGTH", v[3] = "HEIGHT" PROVE FALSE
    BY DEF IsVariant
  <2>2. 2 \in 1..Len(v) /\ 3 \in 1..Len(v)
    <3>1. \A n \in 4..6 : 2 \in 1..n /\ 3 \in 1..n
      OBVIOUS
    <3>. QED
      BY <3>1 DEF IsVariant
  <2>3. Rank(v[2]) < Rank(v[3]) \/ v[2] = v[3]
    BY <1>2, <2>2
  <2>. QED
    BY <2>1, <2>3, Ranks
<1>6. Range(v) \in UnderstoodHeaders
  <2>. DEFINE extra == {v[k] : k \in 5..Len(v)}
  <2>1. Members(v) = {"MAT", "WIDTH", "AMOUNT", v[3]} \cup extra
    <3>1. Len(v) \in 4..6
      BY DEF IsVariant
    <3>2. \A n \in 4..6 : 1..n = {1, 2, 3, 4} \cup 5..n
      OBVIOUS
    <3>3. 1..Len(v) = {1, 2, 3, 4} \cup 5..Len(v)
      BY <3>1, <3>2
    <3>4. v[1] = "MAT" /\ v[2] = "WIDTH" /\ v[4] = "AMOUNT"
      BY <1>5 DEF IsVariant
    <3>5. Members(v) = {v[k] : k \in {1, 2, 3, 4} \cup 5..Len(v)}
      BY <3>3 DEF Members
    <3>. QED
      BY <3>4, <3>5
  <2>2. extra \in SUBSET {"BARCODE", "MARKING"}
    BY DEF IsVariant
  <2>. HIDE DEF extra
  <2>. QED
    BY <1>1, <1>5, <2>1, <2>2 DEF UnderstoodHeaders
<1>. QED
  BY <1>1, <1>2, <1>4, <1>6

\* A row that is understood fits the variant of its headers.
LEMMA RowUnderstood ==
    ASSUME NEW T, NEW sheet, IsSheet(sheet, T), NEW r \in DOMAIN sheet, NoneTwice(sheet, r),
           NEW v \in Seq(HeaderTypes), RankRising(v), Members(v) = HeadersIn(sheet, r)
    PROVE  Types(sheet, r) = v
<1>. DEFINE types == Types(sheet, r)
            cols == HeaderColumns(sheet, r)
<1>1. /\ types \in Seq(HeaderTypes) /\ Members(types) = HeadersIn(sheet, r)
      /\ \A k \in 1..Len(types) : cols[k] \in DOMAIN sheet[r] /\ types[k] = sheet[r][cols[k]].type
      /\ \A k, l \in 1..Len(types) : k < l =>
            Rank(types[k]) < Rank(types[l]) \/ (types[k] = types[l] /\ cols[k] < cols[l])
  BY TypesOfRow
<1>2. HeaderColumns(sheet, r) \in Seq(Nat) /\ Len(cols) = Len(types)
  BY HeaderColumnsType, TypesOfRow
<1>. HIDE DEF types, cols
<1>3. ASSUME NEW k \in 1..Len(types), NEW l \in 1..Len(types), k < l
      PROVE  Rank(types[k]) < Rank(types[l])
  <2>1. SUFFICES ASSUME types[k] = types[l], cols[k] < cols[l] PROVE FALSE
    BY <1>1, <1>3
  <2>2. /\ cols[k] \in DOMAIN sheet[r] /\ cols[l] \in DOMAIN sheet[r]
        /\ sheet[r][cols[k]].type = sheet[r][cols[l]].type
        /\ sheet[r][cols[k]].type \in HeaderTypes
    <3>1. types[k] \in HeaderTypes
      BY <1>1, LenProperties
    <3>. QED
      BY <1>1, <2>1, <3>1
  <2>3. cols[k] = cols[l]
    BY <2>2 DEF NoneTwice
  <2>4. cols[k] \in Nat
    BY <1>2, LenProperties DEF cols
  <2>. QED
    BY <2>1, <2>3, <2>4
<1>4. RankRising(types)
  BY <1>3 DEF RankRising
<1>5. types = v
  BY <1>1, <1>4, RankUnique
<1>. QED
  BY <1>5 DEF types

\* A sheet is read exactly when a person would understand its headers.
LEMMA ReadsUnderstood ==
    ASSUME NEW T, NEW sheet, IsSheet(sheet, T)
    PROVE  /\ Reads(sheet) <=> Understood(sheet)
           /\ Reads(sheet) => HeadersIn(sheet, FirstHeader(sheet)) = Range(VariantOf(sheet))
<1>1. HeaderRows(sheet) = HeadedRows(sheet) /\ HeaderRows(sheet) \subseteq DOMAIN sheet
  BY HeaderRowsAreHeaded DEF HeadedRows
<1>2. FirstHeader(sheet) = Min(HeadedRows(sheet))
  BY <1>1 DEF FirstHeader
<1>3. ASSUME Reads(sheet)
      PROVE  Understood(sheet) /\ HeadersIn(sheet, FirstHeader(sheet)) = Range(VariantOf(sheet))
  <2>1. /\ FirstHeader(sheet) \in HeaderRows(sheet) /\ IsVariant(VariantOf(sheet))
        /\ \A r \in HeaderRows(sheet) : Types(sheet, r) = VariantOf(sheet)
    BY <1>3, SheetRead, VariantsAre
  <2>2. ASSUME NEW r \in HeaderRows(sheet)
        PROVE  /\ NoneTwice(sheet, r) /\ HeadersIn(sheet, r) = Range(VariantOf(sheet))
               /\ Range(VariantOf(sheet)) \in UnderstoodHeaders
    BY <1>1, <2>1, RowOfVariant
  <2>. QED
    BY <1>1, <1>2, <1>3, <2>1, <2>2 DEF Understood, Reads
<1>4. ASSUME Understood(sheet) PROVE Reads(sheet)
  <2>1. /\ HeadedRows(sheet) # {}
        /\ \A r \in HeadedRows(sheet) :
             /\ NoneTwice(sheet, r)
             /\ HeadersIn(sheet, r) = HeadersIn(sheet, FirstHeader(sheet))
             /\ HeadersIn(sheet, r) \in UnderstoodHeaders
    BY <1>2, <1>4 DEF Understood
  <2>2. PICK side \in {"HEIGHT", "LENGTH"}, extra \in SUBSET {"BARCODE", "MARKING"} :
          HeadersIn(sheet, FirstHeader(sheet)) = {"MAT", "WIDTH", "AMOUNT", side} \cup extra
    BY <2>1 DEF UnderstoodHeaders
  <2>3. PICK v \in Variants : /\ v \in Seq(HeaderTypes) /\ RankRising(v)
                              /\ Members(v) = {"MAT", "WIDTH", "AMOUNT", side} \cup extra
    BY Canonical
  <2>4. ASSUME NEW r \in HeaderRows(sheet) PROVE Types(sheet, r) = v
    <3>1. r \in DOMAIN sheet /\ NoneTwice(sheet, r) /\ Members(v) = HeadersIn(sheet, r)
      BY <1>1, <2>1, <2>2, <2>3
    <3>. QED
      BY <2>3, <3>1, RowUnderstood
  <2>. QED
    BY <1>1, <2>1, <2>4 DEF Reads, MatchedVariants
<1>. QED
  BY <1>3, <1>4

\* The column that is read for a header is the one that has it.
LEMMA ColumnOfHeader ==
    ASSUME NEW T, NEW sheet, IsSheet(sheet, T), Reads(sheet), NEW k \in DOMAIN VariantOf(sheet)
    PROVE  TargetColumns(sheet)[k] = ColumnOf(sheet, FirstHeader(sheet), VariantOf(sheet)[k])
<1>. DEFINE f == FirstHeader(sheet)
            h == VariantOf(sheet)[k]
            c == TargetColumns(sheet)[k]
<1>1. /\ f \in HeaderRows(sheet) /\ f \in DOMAIN sheet /\ c \in DOMAIN sheet[f]
      /\ sheet[f][c].type = h /\ Types(sheet, f) = VariantOf(sheet) /\ IsVariant(VariantOf(sheet))
  BY SheetRead, VariantsAre
<1>2. NoneTwice(sheet, f)
  BY <1>1, RowOfVariant
<1>3. h \in HeaderTypes
  BY <1>1, VariantType DEF Range
<1>. HIDE DEF f, h, c
<1>4. ColumnOf(sheet, f, h) \in DOMAIN sheet[f] /\ sheet[f][ColumnOf(sheet, f, h)].type = h
  BY <1>1 DEF ColumnOf
<1>5. c = ColumnOf(sheet, f, h)
  BY <1>1, <1>2, <1>3, <1>4 DEF NoneTwice
<1>. QED
  BY <1>5 DEF f, h, c

LEMMA CompleteRowsFit ==
    ASSUME NEW T, NEW sheet, IsSheet(sheet, T), Reads(sheet)
    PROVE  CompleteRows(sheet) =
             {r \in DOMAIN sheet : r > FirstHeader(sheet) /\
                \A h \in HeadersIn(sheet, FirstHeader(sheet)) : Fits(sheet, r, FirstHeader(sheet), h)}
<1>. DEFINE v == VariantOf(sheet)
            f == FirstHeader(sheet)
            cols == TargetColumns(sheet)
<1>1. HeadersIn(sheet, f) = {v[k] : k \in DOMAIN v} /\ Range(v) \subseteq HeaderTypes
  <2>1. IsVariant(v)
    BY SheetRead, VariantsAre
  <2>. QED
    BY <2>1, ReadsUnderstood, VariantType DEF Range
<1>2. \A k \in DOMAIN v : cols[k] = ColumnOf(sheet, f, v[k])
  BY ColumnOfHeader
<1>. HIDE DEF v, f, cols
<1>3. ASSUME NEW r, NEW h
      PROVE  Fits(sheet, r, f, h) <=> sheet[r][ColumnOf(sheet, f, h)].type \in Permitted(h)
  BY DEF Fits, Permitted
<1>4. ASSUME NEW r
      PROVE  FullRow(sheet, r, cols, v) <=> \A h \in HeadersIn(sheet, f) : Fits(sheet, r, f, h)
  BY <1>1, <1>2, <1>3 DEF FullRow
<1>. QED
  BY <1>4 DEF CompleteRows, v, f, cols

\* What RowsReadByMeaning says of one sheet.
LEMMA ReadByMeaning ==
    ASSUME NEW T, NEW sheet, IsSheet(sheet, T)
    PROVE  ReadAsUnderstood(sheet, ReadSheet(sheet).rows)
<1>. DEFINE first == FirstHeader(sheet)
            read == ReadSheet(sheet).rows
            v == VariantOf(sheet)
            rows == RowsOf(sheet)
<1>1. first = Min(HeadedRows(sheet)) /\ HeaderRows(sheet) = HeadedRows(sheet)
  BY HeaderRowsAreHeaded DEF FirstHeader
<1>2. Reads(sheet) <=> Understood(sheet)
  BY ReadsUnderstood
<1>3. ASSUME ~Understood(sheet) PROVE read = <<>>
  BY <1>2, <1>3, ReadSheetIs DEF NothingRead
<1>4. ASSUME Understood(sheet)
      PROVE  /\ {read[i].from : i \in DOMAIN read} =
                    {r \in DOMAIN sheet : r > first /\ \A h \in HeadersIn(sheet, first) :
                                            Fits(sheet, r, first, h)}
             /\ \A i \in DOMAIN read : \A h \in HeadersIn(sheet, first) :
                    SameColumns(sheet, read[i].from) =>
                        read[i].at[h] = sheet[read[i].from][
                            ColumnOf(sheet, Governing(sheet, read[i].from), h)].value
  <2>1. /\ DOMAIN read = DOMAIN rows
        /\ \A i \in DOMAIN rows : read[i].from = rows[i]
        /\ \A i \in DOMAIN rows : \A h \in Range(v) :
             read[i].at[h] = sheet[rows[i]][TargetColumns(sheet)[PlaceOf(v, h)]].value
    BY <1>2, <1>4, ReadSheetIs
  <2>2. /\ rows \in Seq(Nat) /\ Members(rows) = CompleteRows(sheet) /\ IsVariant(v)
        /\ first \in HeadedRows(sheet)
    BY <1>1, <1>2, <1>4, SheetRead, VariantsAre
  <2>3. Members(rows) = {rows[i] : i \in DOMAIN rows}
    BY <2>2, LenProperties DEF Members
  <2>4. HeadersIn(sheet, first) = Range(v)
    BY <1>2, <1>4, ReadsUnderstood
  <2>5. {read[i].from : i \in DOMAIN read} = CompleteRows(sheet)
    <3>1. {read[i].from : i \in DOMAIN read} = {rows[i] : i \in DOMAIN rows}
      BY <2>1
    <3>. QED
      BY <2>2, <2>3, <3>1
  <2>6. ASSUME NEW i \in DOMAIN read, NEW h \in HeadersIn(sheet, first),
               SameColumns(sheet, read[i].from)
        PROVE  read[i].at[h] = sheet[read[i].from][
                   ColumnOf(sheet, Governing(sheet, read[i].from), h)].value
    <3>1. rows[i] \in CompleteRows(sheet) /\ i \in DOMAIN rows
      BY <2>1, <2>2, <2>3
    <3>2. PlaceOf(v, h) \in DOMAIN v /\ v[PlaceOf(v, h)] = h
      <4>1. \E k \in DOMAIN v : v[k] = h
        BY <2>2, <2>4, VariantType
      <4>. QED
        BY <4>1 DEF PlaceOf
    <3>3. TargetColumns(sheet)[PlaceOf(v, h)] = ColumnOf(sheet, first, h)
      BY <1>2, <1>4, <3>2, ColumnOfHeader
    <3>4. h \in HeadersIn(sheet, Governing(sheet, rows[i]))
      <4>. DEFINE above == {x \in HeadedRows(sheet) : x < rows[i]}
      <4>1. first \in above
        BY <2>2, <3>1, SheetType DEF CompleteRows, HeadedRows
      <4>2. above \subseteq 0..Len(sheet) /\ Len(sheet) \in Nat
        BY SheetType DEF HeadedRows
      <4>3. Max(above) \in above
        <5>. HIDE DEF above
        <5>. QED
          BY <4>1, <4>2, MinMax
      <4>4. Governing(sheet, rows[i]) \in HeadedRows(sheet)
        BY <4>3 DEF Governing
      <4>. QED
        BY <1>1, <1>4, <4>4 DEF Understood
    <3>5. ColumnOf(sheet, Governing(sheet, rows[i]), h) = ColumnOf(sheet, first, h)
      BY <1>1, <2>1, <2>6, <3>1, <3>4 DEF SameColumns
    <3>. QED
      BY <2>1, <2>4, <3>1, <3>3, <3>5
  <2>. QED
    BY <1>2, <1>4, <2>5, <2>6, CompleteRowsFit
<1>. QED
  BY <1>1, <1>3, <1>4 DEF ReadAsUnderstood

-----------------------------------------------------------------------------

\* The headers of a sheet are those of columns (table_processer.py).
LEMMA HeadersType ==
    ASSUME NEW sheet
    PROVE  ReadSheet(sheet).headers \subseteq HeaderTypes
<1>1. ASSUME NEW v \in Variants PROVE Range(v) \subseteq HeaderTypes
  <2>1. {"MAT", "WIDTH", "HEIGHT", "LENGTH", "AMOUNT", "BARCODE", "MARKING"} \subseteq HeaderTypes
    BY DEF HeaderTypes, HeaderOrder, Range
  <2>2. PICK sides \in {<<"MAT", "WIDTH", "HEIGHT", "AMOUNT">>,
                        <<"MAT", "WIDTH", "LENGTH", "AMOUNT">>,
                        <<"MAT", "LENGTH", "HEIGHT", "AMOUNT">>},
             extra \in {<<>>, <<"BARCODE">>, <<"MARKING">>,
                        <<"BARCODE", "MARKING">>, <<"MARKING", "BARCODE">>} :
             v = sides \o extra
    BY DEF Variants
  <2>3. sides \in Seq(HeaderTypes) /\ extra \in Seq(HeaderTypes)
    <3>. DEFINE all == {"MAT", "WIDTH", "HEIGHT", "LENGTH", "AMOUNT", "BARCODE", "MARKING"}
    <3>1. sides \in Seq(all)
      <4>1. /\ <<"MAT", "WIDTH", "HEIGHT", "AMOUNT">> \in Seq(all)
            /\ <<"MAT", "WIDTH", "LENGTH", "AMOUNT">> \in Seq(all)
            /\ <<"MAT", "LENGTH", "HEIGHT", "AMOUNT">> \in Seq(all)
        OBVIOUS
      <4>. HIDE DEF all
      <4>. QED
        BY <2>2, <4>1
    <3>2. extra \in Seq(all)
      <4>1. /\ <<>> \in Seq(all) /\ <<"BARCODE">> \in Seq(all) /\ <<"MARKING">> \in Seq(all)
            /\ <<"BARCODE", "MARKING">> \in Seq(all) /\ <<"MARKING", "BARCODE">> \in Seq(all)
        OBVIOUS
      <4>. HIDE DEF all
      <4>. QED
        BY <2>2, <4>1
    <3>. HIDE DEF all
    <3>. QED
      BY <2>1, <3>1, <3>2, SeqMonotonic DEF all
  <2>4. v \in Seq(HeaderTypes)
    BY <2>2, <2>3, ConcatProperties
  <2>. QED
    BY <2>4, LenProperties DEF Range
<1>2. CASE HeaderRows(sheet) = {} \/ MatchedVariants(sheet) = {}
  BY <1>2 DEF ReadSheet, NothingRead
<1>3. CASE ~(HeaderRows(sheet) = {} \/ MatchedVariants(sheet) = {})
  <2>1. ReadSheet(sheet).headers = Range(CHOOSE v \in MatchedVariants(sheet) : TRUE)
    BY <1>3 DEF ReadSheet
  <2>2. (CHOOSE v \in MatchedVariants(sheet) : TRUE) \in Variants
    BY <1>3 DEF MatchedVariants
  <2>. QED
    BY <1>1, <2>1, <2>2
<1>. QED
  BY <1>2, <1>3

LEMMA ElementFields ==
    ASSUME NEW m, NEW e, e = [Element(m) EXCEPT !.matches = e.matches]
    PROVE  /\ DOMAIN e = {"prefix", "parts", "postfix", "matches"}
           /\ e.parts = Parse(m).parts
           /\ \A x : [e EXCEPT !.matches = x] = [Element(m) EXCEPT !.matches = x]
BY DEF Element

-----------------------------------------------------------------------------

LEMMA SheetsInvInit == Init => SheetsInv
<1>. SUFFICES ASSUME Init PROVE SheetsInv
  OBVIOUS
<1>1. order \in Orders /\ order.docs \in Seq(Range(order.docs)) \ {<<>>}
  BY OrdersAssumption DEF Init
<1>2. Len(order.docs) \in Nat \ {0} /\ DOMAIN order.docs = 1..Len(order.docs)
  BY <1>1, LenProperties, EmptySeq
<1>3. DocumentsInOrder
  BY <1>1, <1>2 DEF Init, DocumentsInOrder, Steps
<1>4. TypeOK
  BY <1>1, <1>2, OrdersAssumption DEF Init, TypeOK, Steps
<1>5. ReadBefore(0) = {} /\ MaterialsUpTo(0) = {} /\ PartsUpTo(0) = {} /\ Asked({}) = {}
  BY DEF ReadBefore, MaterialsUpTo, PartsUpTo, Asked
<1>6. doc - 1 = 0 /\ Parsed = 0
  BY DEF Init, Parsed
<1>7. step = "open" /\ outcome = "none" /\ DOMAIN elements = {}
  BY DEF Init
<1>8. TablesAreOfDocument /\ RaisedAsParsed
  BY <1>7 DEF TablesAreOfDocument, RaisedAsParsed
<1>9. PartsAreOfDocuments /\ QuestionsAreOfDocuments
  BY <1>5, <1>6, <1>7 DEF Init, PartsAreOfDocuments, QuestionsAreOfDocuments
<1>10. ElementsAreOfDocuments /\ NoneBlocked
  BY <1>5, <1>6, <1>7 DEF ElementsAreOfDocuments, NoneBlocked
<1>11. ResultsAreOwn
  BY DEF Init, ResultsAreOwn
<1>. QED
  BY <1>3, <1>4, <1>8, <1>9, <1>10, <1>11 DEF SheetsInv

-----------------------------------------------------------------------------
(* The steps                                                                *)

LEMMA ReadAll ==
    ASSUME DocumentsInOrder
    PROVE  ReadBefore(Len(order.docs) + 1) = ReadBefore(Len(order.docs))
<1>1. DOMAIN order.docs = 1..Len(order.docs) /\ Len(order.docs) \in Nat
  BY DocumentsType
<1>. QED
  BY <1>1 DEF ReadBefore

\* Going on to the next document keeps what is said of those behind.
LEMMA NextDocumentKeeps ==
    ASSUME SheetsInv, step \in {"open", "match", "write"}, NextDocument, order' = order,
           parts' = parts, parts = PartsUpTo(doc),
           elements' = elements, DOMAIN elements = MaterialsUpTo(doc),
           questions' = Asked(PartsUpTo(doc)),
           \A d \in ReadBefore(doc) : ~Blocks(d),
           outcome' = outcome
    PROVE  /\ DocumentsInOrder' /\ TablesAreOfDocument' /\ PartsAreOfDocuments'
           /\ QuestionsAreOfDocuments' /\ ElementsAreOfDocuments' /\ NoneBlocked'
           /\ RaisedAsParsed'
<1>1. /\ doc \in 1..Len(order.docs) /\ Len(order.docs) \in Nat \ {0}
      /\ outcome = "none" /\ step # "done" /\ DocumentsInOrder
  BY DocumentsType DEF SheetsInv, DocumentsInOrder
<1>2. /\ doc' = doc + 1 /\ doc' - 1 = doc
      /\ \/ step' = "open" /\ doc' \in 1..Len(order.docs)
         \/ step' = "end" /\ doc' = Len(order.docs) + 1
      /\ outcome' = "none"
  BY <1>1 DEF NextDocument
<1>3. Parsed' = doc
  BY <1>2 DEF Parsed
<1>4. DocumentsInOrder'
  BY <1>1, <1>2 DEF DocumentsInOrder, Steps
<1>5. TablesAreOfDocument' /\ RaisedAsParsed'
  BY <1>2 DEF TablesAreOfDocument, RaisedAsParsed
<1>6. PartsAreOfDocuments'
  BY <1>3, OfOrder DEF PartsAreOfDocuments
<1>7. QuestionsAreOfDocuments'
  BY <1>2, OfOrder DEF QuestionsAreOfDocuments
<1>8. ElementsAreOfDocuments'
  BY <1>2, <1>3, OfOrder DEF SheetsInv, ElementsAreOfDocuments
<1>9. NoneBlocked'
  BY <1>2, OfOrder DEF NoneBlocked
<1>. QED
  BY <1>4, <1>5, <1>6, <1>7, <1>8, <1>9

\* The files that are there stay as they are.
LEMMA ResultsStay ==
    ASSUME ResultsAreOwn, order' = order, saved' = saved
    PROVE  ResultsAreOwn'
BY OfOrder DEF ResultsAreOwn

\* What is known of a document that the loop is at.
LEMMA AtDocument ==
    ASSUME SheetsInv, step \in {"open", "parse", "match", "write"}
    PROVE  /\ DocumentsInOrder /\ outcome = "none"
           /\ doc \in 1..Len(order.docs) /\ doc \in DOMAIN order.docs /\ doc \in Nat
           /\ DOMAIN order.docs = 1..Len(order.docs)
           /\ parts = PartsUpTo(Parsed) /\ DOMAIN elements = MaterialsUpTo(Parsed)
           /\ questions = Asked(PartsUpTo(doc - 1))
           /\ \A d \in ReadBefore(doc - 1) : ~Blocks(d)
           /\ step \in {"parse", "match", "write"} => Readable(doc) /\ tables = ReadOf(doc)
BY DocumentsType DEF SheetsInv, DocumentsInOrder, PartsAreOfDocuments, ElementsAreOfDocuments,
   QuestionsAreOfDocuments, NoneBlocked, TablesAreOfDocument

LEMMA OpenKeeps ==
    ASSUME SheetsInv, Open
    PROVE  SheetsInv'
<1>1. /\ step = "open" /\ order' = order
      /\ UNCHANGED <<elements, parts, questions, saved, outcome, refused>>
  BY DEF Open
<1>2. /\ DocumentsInOrder /\ outcome = "none" /\ outcome' = "none" /\ Parsed = doc - 1
      /\ doc \in 1..Len(order.docs) /\ doc \in DOMAIN order.docs /\ doc \in Nat
      /\ parts = PartsUpTo(doc - 1) /\ DOMAIN elements = MaterialsUpTo(doc - 1)
      /\ questions = Asked(PartsUpTo(doc - 1))
      /\ \A d \in ReadBefore(doc - 1) : ~Blocks(d)
  BY <1>1, AtDocument DEF Parsed
<1>3. ResultsAreOwn'
  BY <1>1, ResultsStay DEF SheetsInv
<1>4. CASE Readable(doc)
  <2>1. /\ tables' = ReadOf(doc) /\ step' = "parse" /\ doc' = doc /\ causes' = causes
        /\ Parsed' = doc - 1
    BY <1>1, <1>4 DEF Open, ReadOf, Parsed
  <2>2. \A s \in DOMAIN tables' : tables'[s].headers \subseteq HeaderTypes
    BY <2>1, HeadersType DEF ReadOf
  <2>3. TypeOK'
    BY <1>1, <1>2, <2>1, <2>2 DEF SheetsInv, TypeOK, Steps
  <2>4. DocumentsInOrder'
    BY <1>1, <1>2, <2>1 DEF DocumentsInOrder, Steps
  <2>5. TablesAreOfDocument' /\ RaisedAsParsed'
    BY <1>1, <1>4, <2>1, OfOrder DEF TablesAreOfDocument, RaisedAsParsed
  <2>6. PartsAreOfDocuments' /\ QuestionsAreOfDocuments' /\ NoneBlocked'
    BY <1>1, <1>2, <2>1, OfOrder DEF PartsAreOfDocuments, QuestionsAreOfDocuments, NoneBlocked
  <2>7. ElementsAreOfDocuments'
    BY <1>1, <1>2, <2>1, OfOrder DEF SheetsInv, ElementsAreOfDocuments
  <2>. QED
    BY <1>3, <2>3, <2>4, <2>5, <2>6, <2>7 DEF SheetsInv
<1>5. CASE ~Readable(doc)
  <2>1. /\ NextDocument /\ tables' = tables
        /\ causes' = [causes EXCEPT ![doc] = order.docs[doc].state]
    BY <1>1, <1>5 DEF Open
  <2>2. /\ ReadBefore(doc) = ReadBefore(doc - 1)
        /\ PartsUpTo(doc) = PartsUpTo(doc - 1)
        /\ MaterialsUpTo(doc) = MaterialsUpTo(doc - 1)
    BY <1>2, <1>5, ReadOneMore
  <2>3. /\ DocumentsInOrder' /\ TablesAreOfDocument' /\ PartsAreOfDocuments'
        /\ QuestionsAreOfDocuments' /\ ElementsAreOfDocuments' /\ NoneBlocked'
        /\ RaisedAsParsed'
    BY <1>1, <1>2, <2>1, <2>2, NextDocumentKeeps
  <2>4. DOMAIN causes' = DOMAIN causes
    BY <2>1
  <2>5. TypeOK'
    BY <1>1, <1>2, <2>1, <2>3, <2>4, DocumentsType DEF SheetsInv, TypeOK, Steps, DocumentsInOrder,
       NextDocument
  <2>. QED
    BY <1>3, <2>3, <2>5 DEF SheetsInv
<1>. QED
  BY <1>4, <1>5

\* An exception that leaves the handler, because of a document that was read.
LEMMA RaiseKeeps ==
    ASSUME SheetsInv, step \in {"parse", "match"}, Raise, NEW d \in ReadBefore(doc), Blocks(d),
           UNCHANGED <<order, doc, tables, elements, parts, questions, saved, causes, refused>>
    PROVE  SheetsInv'
<1>1. step' = "done" /\ outcome' = "raised" /\ doc \in 1..Len(order.docs) /\ outcome = "none"
  BY AtDocument DEF Raise
<1>2. TypeOK'
  BY <1>1 DEF SheetsInv, TypeOK, Steps
<1>3. DocumentsInOrder'
  BY <1>1 DEF SheetsInv, DocumentsInOrder, Steps
<1>4. TablesAreOfDocument' /\ PartsAreOfDocuments' /\ QuestionsAreOfDocuments' /\ NoneBlocked'
  BY <1>1 DEF TablesAreOfDocument, PartsAreOfDocuments, QuestionsAreOfDocuments, NoneBlocked
<1>5. ElementsAreOfDocuments'
  BY <1>1 DEF SheetsInv, ElementsAreOfDocuments
<1>6. RaisedAsParsed'
  BY <1>1, OfOrder DEF RaisedAsParsed
<1>7. ResultsAreOwn'
  BY ResultsStay DEF SheetsInv
<1>. QED
  BY <1>2, <1>3, <1>4, <1>5, <1>6, <1>7 DEF SheetsInv

LEMMA ParseMaterialsKeeps ==
    ASSUME SheetsInv, ParseMaterials
    PROVE  SheetsInv'
<1>1. /\ step = "parse"
      /\ UNCHANGED <<order, doc, tables, questions, saved, causes, refused>>
  BY DEF ParseMaterials
<1>2. /\ DocumentsInOrder /\ outcome = "none" /\ Parsed = doc - 1
      /\ doc \in 1..Len(order.docs) /\ doc \in DOMAIN order.docs /\ doc \in Nat
      /\ parts = PartsUpTo(doc - 1) /\ DOMAIN elements = MaterialsUpTo(doc - 1)
      /\ questions = Asked(PartsUpTo(doc - 1))
      /\ \A d \in ReadBefore(doc - 1) : ~Blocks(d)
      /\ Readable(doc) /\ tables = ReadOf(doc)
  BY <1>1, AtDocument DEF Parsed
<1>3. UniqueMaterials = MaterialsOf(doc)
  BY <1>2 DEF UniqueMaterials, MaterialsOf, ReadOf
<1>4. /\ ReadBefore(doc) = ReadBefore(doc - 1) \cup {doc}
      /\ PartsUpTo(doc) = PartsUpTo(doc - 1) \cup PartsOf(doc)
      /\ MaterialsUpTo(doc) = MaterialsUpTo(doc - 1) \cup MaterialsOf(doc)
  BY <1>2, ReadOneMore
<1>5. CASE \E m \in UniqueMaterials : Raises(m)
  <2>1. Raise /\ UNCHANGED <<elements, parts>>
    BY <1>5 DEF ParseMaterials
  <2>2. doc \in ReadBefore(doc) /\ Blocks(doc)
    BY <1>3, <1>4, <1>5 DEF Blocks
  <2>. QED
    BY <1>1, <2>1, <2>2, RaiseKeeps
<1>6. CASE ~(\E m \in UniqueMaterials : Raises(m))
  <2>1. /\ elements' = ParsedElements
        /\ parts' = parts \cup UNION {Range(Parse(m).parts) : m \in MaterialsOf(doc)}
        /\ step' = "match" /\ outcome' = outcome /\ Parsed' = doc
    BY <1>1, <1>3, <1>6 DEF ParseMaterials, Parsed
  <2>2. /\ DOMAIN elements' = MaterialsUpTo(doc)
        /\ \A m \in MaterialsOf(doc) : elements'[m] = Element(m)
        /\ \A m \in DOMAIN elements' \ MaterialsOf(doc) :
             m \in DOMAIN elements /\ elements'[m] = elements[m]
    BY <1>2, <1>3, <1>4, <2>1 DEF ParsedElements
  <2>3. \A m \in DOMAIN elements' :
          elements'[m] = [Element(m) EXCEPT !.matches = elements'[m].matches]
    <3>1. \A m : Element(m) = [Element(m) EXCEPT !.matches = Element(m).matches]
      BY DEF Element
    <3>2. \A m \in DOMAIN elements :
            elements[m] = [Element(m) EXCEPT !.matches = elements[m].matches]
      BY DEF SheetsInv, ElementsAreOfDocuments
    <3>. QED
      BY <2>2, <3>1, <3>2
  <2>4. TypeOK'
    <3>1. \A m \in DOMAIN elements' :
            DOMAIN elements'[m] = {"prefix", "parts", "postfix", "matches"}
      BY <2>3, ElementFields
    <3>. QED
      BY <1>1, <1>2, <2>1, <3>1 DEF SheetsInv, TypeOK, Steps
  <2>5. DocumentsInOrder'
    BY <1>1, <1>2, <2>1 DEF DocumentsInOrder, Steps
  <2>6. TablesAreOfDocument' /\ RaisedAsParsed'
    BY <1>1, <1>2, <2>1, OfOrder DEF TablesAreOfDocument, RaisedAsParsed
  <2>7. PartsAreOfDocuments'
    BY <1>1, <1>2, <1>4, <2>1, OfOrder DEF PartsAreOfDocuments, PartsOf
  <2>8. QuestionsAreOfDocuments'
    BY <1>1, <1>2, <2>1, OfOrder DEF QuestionsAreOfDocuments
  <2>9. ElementsAreOfDocuments'
    BY <1>1, <2>1, <2>2, <2>3, OfOrder DEF ElementsAreOfDocuments
  <2>10. NoneBlocked'
    BY <1>1, <1>2, <1>3, <1>6, <2>1, OfOrder DEF NoneBlocked
  <2>11. ResultsAreOwn'
    BY <1>1, ResultsStay DEF SheetsInv
  <2>. QED
    BY <2>4, <2>5, <2>6, <2>7, <2>8, <2>9, <2>10, <2>11 DEF SheetsInv
<1>. QED
  BY <1>5, <1>6

\* At "match" nothing of the document blocks but what the answers lack.
LEMMA AtMatch ==
    ASSUME SheetsInv, step = "match"
    PROVE  /\ DocumentsInOrder /\ outcome = "none"
           /\ doc \in 1..Len(order.docs) /\ doc \in DOMAIN order.docs /\ doc \in Nat
           /\ parts = PartsUpTo(doc) /\ DOMAIN elements = MaterialsUpTo(doc)
           /\ questions = Asked(PartsUpTo(doc - 1))
           /\ ReadBefore(doc) = ReadBefore(doc - 1) \cup {doc}
           /\ PartsUpTo(doc) = PartsUpTo(doc - 1) \cup PartsOf(doc)
           /\ \A d \in ReadBefore(doc - 1) : ~Blocks(d)
           /\ \A m \in MaterialsOf(doc) : ~Raises(m)
           /\ \A m \in MaterialsOf(doc) : elements[m] = Element(m)
           /\ \A m \in DOMAIN elements : elements[m].parts = Parse(m).parts
           /\ Readable(doc) /\ tables = ReadOf(doc)
           /\ LocalQuestions = Asked(PartsUpTo(doc))
<1>1. /\ DocumentsInOrder /\ outcome = "none" /\ Parsed = doc
      /\ doc \in 1..Len(order.docs) /\ doc \in DOMAIN order.docs /\ doc \in Nat
      /\ parts = PartsUpTo(doc) /\ DOMAIN elements = MaterialsUpTo(doc)
      /\ questions = Asked(PartsUpTo(doc - 1))
      /\ \A d \in ReadBefore(doc - 1) : ~Blocks(d)
      /\ Readable(doc) /\ tables = ReadOf(doc)
  BY AtDocument DEF Parsed
<1>2. /\ ReadBefore(doc) = ReadBefore(doc - 1) \cup {doc}
      /\ PartsUpTo(doc) = PartsUpTo(doc - 1) \cup PartsOf(doc)
  BY <1>1, ReadOneMore
<1>3. \A m \in DOMAIN elements : elements[m].parts = Parse(m).parts
  BY ElementFields DEF SheetsInv, ElementsAreOfDocuments
<1>4. LocalQuestions = Asked(PartsUpTo(doc))
  BY <1>1 DEF LocalQuestions, Asked
<1>. QED
  BY <1>1, <1>2, <1>3, <1>4 DEF SheetsInv, ElementsAreOfDocuments, NoneBlocked

LEMMA AskKeeps ==
    ASSUME SheetsInv, Ask
    PROVE  SheetsInv'
<1>1. /\ step = "match" /\ LocalQuestions # {} /\ questions' = questions \cup LocalQuestions
      /\ NextDocument
      /\ UNCHANGED <<order, tables, elements, parts, saved, causes, outcome, refused>>
  BY DEF Ask
<1>2. questions' = Asked(PartsUpTo(doc))
  BY <1>1, AtMatch DEF Asked
<1>3. \A d \in ReadBefore(doc) : ~Blocks(d)
  <2>1. order.answers = NoAnswers
    BY <1>1 DEF LocalQuestions
  <2>2. ~Blocks(doc)
    BY <1>1, <2>1, AtMatch DEF Blocks
  <2>. QED
    BY <1>1, <2>2, AtMatch
<1>4. /\ DocumentsInOrder' /\ TablesAreOfDocument' /\ PartsAreOfDocuments'
      /\ QuestionsAreOfDocuments' /\ ElementsAreOfDocuments' /\ NoneBlocked'
      /\ RaisedAsParsed'
  BY <1>1, <1>2, <1>3, AtMatch, NextDocumentKeeps
<1>5. TypeOK'
  BY <1>1, <1>4, AtMatch, DocumentsType DEF SheetsInv, TypeOK, Steps, DocumentsInOrder, NextDocument
<1>6. ResultsAreOwn'
  BY <1>1, ResultsStay DEF SheetsInv
<1>. QED
  BY <1>4, <1>5, <1>6 DEF SheetsInv

LEMMA MatchKeeps ==
    ASSUME SheetsInv, Match
    PROVE  SheetsInv'
<1>1. /\ step = "match" /\ LocalQuestions = {}
      /\ UNCHANGED <<order, doc, tables, parts, questions, saved, causes, refused>>
  BY DEF Match
<1>2. CASE ~(\A m \in DOMAIN elements : Range(elements[m].parts) \subseteq KnownParts)
  <2>1. Raise /\ UNCHANGED elements
    BY <1>2 DEF Match
  <2>2. PICK m \in MaterialsUpTo(doc) : ~(Range(Parse(m).parts) \subseteq KnownParts)
    BY <1>1, <1>2, AtMatch
  <2>3. PICK d \in ReadBefore(doc) : m \in MaterialsOf(d)
    BY <2>2 DEF MaterialsUpTo
  <2>4. Range(Parse(m).parts) \subseteq PartsOf(d) /\ PartsOf(d) \subseteq PartsUpTo(doc)
    BY <2>3 DEF PartsOf, PartsUpTo
  <2>5. order.answers # NoAnswers
    BY <1>1, <2>2, <2>4, AtMatch DEF KnownParts
  <2>6. Blocks(d)
    BY <2>2, <2>4, <2>5 DEF KnownParts, Blocks
  <2>. QED
    BY <1>1, <2>1, <2>3, <2>6, RaiseKeeps
<1>3. CASE \A m \in DOMAIN elements : Range(elements[m].parts) \subseteq KnownParts
  <2>1. elements' = MatchedElements /\ step' = "write" /\ outcome' = outcome /\ Parsed' = doc
    BY <1>1, <1>3 DEF Match, Parsed
  <2>2. DOMAIN elements' = DOMAIN elements
    BY <2>1 DEF MatchedElements
  <2>3. \A m \in MaterialsOf(doc) : elements'[m] = MatchedOnce(Element(m))
    <3>1. ASSUME NEW m \in MaterialsOf(doc) PROVE m \in DOMAIN elements /\ elements[m] = Element(m)
      BY <1>1, <3>1, AtMatch DEF MaterialsUpTo
    <3>. QED
      BY <2>1, <3>1 DEF MatchedElements, MatchedOnce
  <2>4. \A m \in DOMAIN elements' :
          elements'[m] = [Element(m) EXCEPT !.matches = elements'[m].matches]
    <3>1. ASSUME NEW m \in DOMAIN elements
          PROVE  elements'[m] = [Element(m) EXCEPT !.matches = elements'[m].matches]
      <4>1. elements[m] = [Element(m) EXCEPT !.matches = elements[m].matches]
        BY DEF SheetsInv, ElementsAreOfDocuments
      <4>2. PICK x : elements'[m] = [elements[m] EXCEPT !.matches = x]
        BY <2>1 DEF MatchedElements
      <4>3. elements'[m] = [Element(m) EXCEPT !.matches = x]
        BY <4>1, <4>2, ElementFields
      <4>4. elements'[m].matches = x
        BY <4>3 DEF Element
      <4>. QED
        BY <4>3, <4>4
    <3>. QED
      BY <2>2, <3>1
  <2>5. ~Blocks(doc)
    <3>1. ASSUME order.answers # NoAnswers PROVE PartsOf(doc) \subseteq order.answers
      <4>1. \A m \in MaterialsOf(doc) : Range(Parse(m).parts) \subseteq order.answers
        BY <1>1, <1>3, <3>1, AtMatch DEF KnownParts, MaterialsUpTo
      <4>. QED
        BY <4>1 DEF PartsOf
    <3>. QED
      BY <1>1, <3>1, AtMatch DEF Blocks
  <2>6. TypeOK'
    <3>1. \A m \in DOMAIN elements' :
            DOMAIN elements'[m] = {"prefix", "parts", "postfix", "matches"}
      BY <2>4, ElementFields
    <3>. QED
      BY <1>1, <2>1, <3>1, AtMatch DEF SheetsInv, TypeOK, Steps
  <2>7. DocumentsInOrder'
    BY <1>1, <2>1, AtMatch DEF DocumentsInOrder, Steps
  <2>8. TablesAreOfDocument' /\ RaisedAsParsed'
    BY <1>1, <2>1, AtMatch, OfOrder DEF TablesAreOfDocument, RaisedAsParsed
  <2>9. PartsAreOfDocuments'
    BY <1>1, <2>1, AtMatch, OfOrder DEF PartsAreOfDocuments
  <2>10. QuestionsAreOfDocuments'
    BY <1>1, <2>1, AtMatch, OfOrder DEF QuestionsAreOfDocuments, LocalQuestions
  <2>11. ElementsAreOfDocuments'
    BY <1>1, <2>1, <2>2, <2>3, <2>4, AtMatch, OfOrder DEF ElementsAreOfDocuments
  <2>12. NoneBlocked'
    BY <1>1, <2>1, <2>5, AtMatch, OfOrder DEF NoneBlocked
  <2>13. ResultsAreOwn'
    BY <1>1, ResultsStay DEF SheetsInv
  <2>. QED
    BY <2>6, <2>7, <2>8, <2>9, <2>10, <2>11, <2>12, <2>13 DEF SheetsInv
<1>. QED
  BY <1>2, <1>3

\* At "write" the document is behind: nothing of it is asked for and nothing blocked.
LEMMA AtWrite ==
    ASSUME SheetsInv, step = "write"
    PROVE  /\ DocumentsInOrder /\ outcome = "none"
           /\ doc \in 1..Len(order.docs) /\ doc \in DOMAIN order.docs /\ doc \in Nat
           /\ parts = PartsUpTo(doc) /\ DOMAIN elements = MaterialsUpTo(doc)
           /\ questions = Asked(PartsUpTo(doc))
           /\ \A d \in ReadBefore(doc) : ~Blocks(d)
           /\ tables = ReadOf(doc)
           /\ MaterialsOf(doc) \subseteq DOMAIN elements
           /\ \A m \in MaterialsOf(doc) : elements[m] = OwnElements(doc)[m]
<1>1. /\ DocumentsInOrder /\ outcome = "none" /\ Parsed = doc
      /\ doc \in 1..Len(order.docs) /\ doc \in DOMAIN order.docs /\ doc \in Nat
      /\ parts = PartsUpTo(doc) /\ DOMAIN elements = MaterialsUpTo(doc)
      /\ questions = Asked(PartsUpTo(doc - 1))
      /\ \A d \in ReadBefore(doc - 1) : ~Blocks(d)
      /\ Readable(doc) /\ tables = ReadOf(doc)
  BY AtDocument DEF Parsed
<1>2. /\ ReadBefore(doc) = ReadBefore(doc - 1) \cup {doc}
      /\ PartsUpTo(doc) = PartsUpTo(doc - 1) \cup PartsOf(doc)
  BY <1>1, ReadOneMore
<1>3. Asked(PartsUpTo(doc)) = {}
  BY <1>1 DEF SheetsInv, QuestionsAreOfDocuments, LocalQuestions, Asked
<1>4. questions = Asked(PartsUpTo(doc))
  BY <1>1, <1>2, <1>3 DEF Asked
<1>5. \A d \in ReadBefore(doc) : ~Blocks(d)
  BY <1>1, <1>2 DEF SheetsInv, NoneBlocked
<1>6. MaterialsOf(doc) \subseteq DOMAIN elements
  BY <1>1, <1>2 DEF MaterialsUpTo
<1>7. \A m \in MaterialsOf(doc) : elements[m] = OwnElements(doc)[m]
  BY DEF SheetsInv, ElementsAreOfDocuments, OwnElements
<1>. QED
  BY <1>1, <1>4, <1>5, <1>6, <1>7

\* A book depends only on the elements of the materials in its rows.
LEMMA BooksOfEqualElements ==
    ASSUME NEW ts, NEW a, NEW b,
           \A t \in DOMAIN ts : \A m \in Materials(ts[t]) : a[m] = b[m]
    PROVE  RequestBook(ts, a) = RequestBook(ts, b) /\ CalculationBook(ts, a) = CalculationBook(ts, b)
<1>1. ASSUME NEW t \in DOMAIN ts, NEW i \in DOMAIN ts[t].rows
      PROVE  a[ts[t].rows[i].at["MAT"]] = b[ts[t].rows[i].at["MAT"]]
  BY DEF Materials
<1>2. RequestBook(ts, a) = RequestBook(ts, b)
  <2>1. \A t \in DOMAIN ts :
          [i \in DOMAIN ts[t].rows |->
              RequestRow(ts[t], ts[t].rows[i], a[ts[t].rows[i].at["MAT"]])]
          = [i \in DOMAIN ts[t].rows |->
              RequestRow(ts[t], ts[t].rows[i], b[ts[t].rows[i].at["MAT"]])]
    BY <1>1
  <2>. QED
    BY <2>1 DEF RequestBook
<1>3. CalculationBook(ts, a) = CalculationBook(ts, b)
  <2>1. \A t \in DOMAIN ts :
          [i \in DOMAIN ts[t].rows |->
              CalculationRow(ts[t], ts[t].rows[i], i, a[ts[t].rows[i].at["MAT"]])]
          = [i \in DOMAIN ts[t].rows |->
              CalculationRow(ts[t], ts[t].rows[i], i, b[ts[t].rows[i].at["MAT"]])]
    BY <1>1
  <2>2. [t \in DOMAIN ts |-> [i \in DOMAIN ts[t].rows |->
              CalculationRow(ts[t], ts[t].rows[i], i, a[ts[t].rows[i].at["MAT"]])]]
        = [t \in DOMAIN ts |-> [i \in DOMAIN ts[t].rows |->
              CalculationRow(ts[t], ts[t].rows[i], i, b[ts[t].rows[i].at["MAT"]])]]
    BY <2>1
  <2>. QED
    BY <2>2 DEF CalculationBook
<1>. QED
  BY <1>2, <1>3

\* What the three ways to leave a document have in common.
LEMMA WrittenKeeps ==
    ASSUME SheetsInv, step = "write", NextDocument,
           UNCHANGED <<order, tables, elements, parts, questions, outcome>>
    PROVE  /\ DocumentsInOrder' /\ TablesAreOfDocument' /\ PartsAreOfDocuments'
           /\ QuestionsAreOfDocuments' /\ ElementsAreOfDocuments' /\ NoneBlocked'
           /\ RaisedAsParsed'
BY AtWrite, NextDocumentKeeps

LEMMA WriteTypes ==
    ASSUME SheetsInv, step = "write", NextDocument,
           UNCHANGED <<order, tables, elements, parts, questions, outcome>>,
           DOMAIN causes' = DOMAIN causes, refused' \in 0..MaxRefused,
           DOMAIN saved' = DOMAIN saved, \A d \in DOMAIN saved : DOMAIN saved'[d] = DOMAIN saved[d]
    PROVE  TypeOK'
<1>1. DocumentsInOrder'
  BY WrittenKeeps
<1>. QED
  BY <1>1, AtWrite, DocumentsType DEF SheetsInv, TypeOK, Steps, DocumentsInOrder, NextDocument

LEMMA MakeFailsKeeps ==
    ASSUME SheetsInv, MakeFails
    PROVE  SheetsInv'
<1>1. /\ step = "write" /\ NextDocument
      /\ UNCHANGED <<order, tables, elements, parts, questions, saved, outcome, refused>>
      /\ DOMAIN causes' = DOMAIN causes
  BY DEF MakeFails
<1>2. TypeOK'
  BY <1>1, WriteTypes DEF SheetsInv, TypeOK
<1>3. ResultsAreOwn'
  BY <1>1, ResultsStay DEF SheetsInv
<1>. QED
  BY <1>1, <1>2, <1>3, WrittenKeeps DEF SheetsInv

\* A file that is stored is that of the document's own rows.
LEMMA SavedIsOwn ==
    ASSUME SheetsInv, step = "write"
    PROVE  /\ RequestBook(tables, elements) = RequestBook(ReadOf(doc), OwnElements(doc))
           /\ CalculationBook(tables, elements) = CalculationBook(ReadOf(doc), OwnElements(doc))
<1>1. tables = ReadOf(doc) /\ \A m \in MaterialsOf(doc) : elements[m] = OwnElements(doc)[m]
  BY AtWrite
<1>2. \A t \in DOMAIN tables : Materials(tables[t]) \subseteq MaterialsOf(doc)
  BY <1>1 DEF ReadOf, MaterialsOf
<1>. QED
  BY <1>1, <1>2, BooksOfEqualElements

LEMMA SaveKeeps ==
    ASSUME SheetsInv, Save \/ SaveRefused
    PROVE  SheetsInv'
<1>1. /\ step = "write" /\ NextDocument
      /\ UNCHANGED <<order, tables, elements, parts, questions, causes, outcome>>
      /\ refused' \in 0..MaxRefused
  <2>1. refused \in 0..MaxRefused
    BY DEF SheetsInv, TypeOK
  <2>. QED
    BY <2>1, OrdersAssumption DEF Save, SaveRefused
<1>2. /\ DOMAIN saved' = DOMAIN saved
      /\ \A d \in DOMAIN saved : DOMAIN saved'[d] = DOMAIN saved[d]
      /\ \A d \in DOMAIN saved :
           /\ \/ saved'[d].result = saved[d].result
              \/ d = doc /\ saved'[d].result = RequestBook(tables, elements)
           /\ \/ saved'[d].articles = saved[d].articles
              \/ d = doc /\ saved'[d].articles = CalculationBook(tables, elements)
  <2>1. \A d \in DOMAIN saved : DOMAIN saved[d] = {"result", "articles", "counted"}
    BY DEF SheetsInv, TypeOK
  <2>2. doc \in DOMAIN saved
    BY <1>1, AtWrite DEF SheetsInv, TypeOK
  <2>3. CASE Save
    <3>1. PICK articles :
            /\ articles \in {saved[doc].articles, CalculationBook(tables, elements)}
            /\ saved' = [saved EXCEPT ![doc].result = RequestBook(tables, elements),
                                      ![doc].articles = articles, ![doc].counted = TRUE]
      BY <2>2, <2>3 DEF Save
    <3>2. /\ DOMAIN saved' = DOMAIN saved
          /\ \A d \in DOMAIN saved : d # doc => saved'[d] = saved[d]
          /\ saved'[doc] = [saved[doc] EXCEPT !.result = RequestBook(tables, elements),
                                              !.articles = articles, !.counted = TRUE]
      BY <2>2, <3>1
    <3>3. /\ DOMAIN saved'[doc] = DOMAIN saved[doc]
          /\ saved'[doc].result = RequestBook(tables, elements)
          /\ saved'[doc].articles = articles
      BY <2>1, <2>2, <3>2
    <3>. QED
      BY <3>1, <3>2, <3>3
  <2>4. CASE SaveRefused
    <3>1. \/ saved' = saved
          \/ saved' = [saved EXCEPT ![doc].result = RequestBook(tables, elements)]
      BY <2>4 DEF SaveRefused
    <3>2. CASE saved' = saved
      BY <3>2
    <3>3. CASE saved' = [saved EXCEPT ![doc].result = RequestBook(tables, elements)]
      <4>1. /\ DOMAIN saved' = DOMAIN saved
            /\ \A d \in DOMAIN saved : d # doc => saved'[d] = saved[d]
            /\ saved'[doc] = [saved[doc] EXCEPT !.result = RequestBook(tables, elements)]
        BY <2>2, <3>3
      <4>2. /\ DOMAIN saved'[doc] = DOMAIN saved[doc]
            /\ saved'[doc].result = RequestBook(tables, elements)
            /\ saved'[doc].articles = saved[doc].articles
        BY <2>1, <2>2, <4>1
      <4>. QED
        BY <4>1, <4>2
    <3>. QED
      BY <3>1, <3>2, <3>3
  <2>. QED
    BY <2>3, <2>4
<1>3. TypeOK'
  BY <1>1, <1>2, WriteTypes
<1>4. ResultsAreOwn'
  <2>1. ASSUME NEW d \in DOMAIN saved
        PROVE  /\ saved'[d].result \in {NoBook, RequestBook(ReadOf(d), OwnElements(d))}
               /\ saved'[d].articles \in {NoBook, CalculationBook(ReadOf(d), OwnElements(d))}
    BY <1>1, <1>2, SavedIsOwn DEF SheetsInv, ResultsAreOwn
  <2>. QED
    BY <1>1, <1>2, <2>1, OfOrder DEF ResultsAreOwn
<1>. QED
  BY <1>1, <1>3, <1>4, WrittenKeeps DEF SheetsInv

LEMMA EndKeeps ==
    ASSUME SheetsInv, End
    PROVE  SheetsInv'
<1>1. /\ step = "end" /\ step' = "done" /\ outcome' # "raised" /\ outcome' # "none"
      /\ outcome' \in {"materials_review", "completed", "error"}
      /\ outcome' = "materials_review" => questions # {}
      /\ UNCHANGED <<order, doc, tables, elements, parts, questions, saved, causes, refused>>
  BY DEF End
<1>2. /\ doc = Len(order.docs) + 1 /\ Len(order.docs) \in Nat /\ doc - 1 = Len(order.docs)
      /\ outcome = "none" /\ DocumentsInOrder /\ Parsed = doc - 1 /\ Parsed' = doc - 1
  BY <1>1, DocumentsType DEF SheetsInv, DocumentsInOrder, Parsed
<1>3. TypeOK'
  BY <1>1 DEF SheetsInv, TypeOK, Steps
<1>4. DocumentsInOrder'
  BY <1>1, <1>2 DEF DocumentsInOrder, Steps
<1>5. PartsAreOfDocuments' /\ QuestionsAreOfDocuments'
  BY <1>1, <1>2, OfOrder DEF SheetsInv, PartsAreOfDocuments, QuestionsAreOfDocuments
<1>6. ElementsAreOfDocuments'
  BY <1>1, <1>2, OfOrder DEF SheetsInv, ElementsAreOfDocuments
<1>7. NoneBlocked' /\ TablesAreOfDocument'
  BY <1>1, <1>2, OfOrder DEF SheetsInv, NoneBlocked, TablesAreOfDocument
<1>8. RaisedAsParsed'
  <2>1. \A d \in ReadBefore(doc) : ~Blocks(d)
    BY <1>2, ReadAll DEF SheetsInv, NoneBlocked
  <2>. QED
    BY <1>1, <2>1, OfOrder DEF RaisedAsParsed
<1>9. ResultsAreOwn'
  BY <1>1, ResultsStay DEF SheetsInv
<1>. QED
  BY <1>3, <1>4, <1>5, <1>6, <1>7, <1>8, <1>9 DEF SheetsInv

-----------------------------------------------------------------------------
(* The invariant and what follows from it                                   *)

LEMMA SheetsInvNext == SheetsInv /\ [Next]_vars => SheetsInv'
<1>. SUFFICES ASSUME SheetsInv, [Next]_vars PROVE SheetsInv'
  OBVIOUS
<1>1. CASE UNCHANGED vars
  <2>1. UNCHANGED <<order, doc, step, tables, elements, parts, questions, saved, causes, outcome,
                    refused>>
    BY <1>1 DEF vars
  <2>2. TypeOK' /\ DocumentsInOrder'
    BY <2>1 DEF SheetsInv, TypeOK, DocumentsInOrder
  <2>3. TablesAreOfDocument' /\ RaisedAsParsed' /\ NoneBlocked'
    BY <2>1, OfOrder DEF SheetsInv, TablesAreOfDocument, RaisedAsParsed, NoneBlocked
  <2>4. Parsed' = Parsed /\ LocalQuestions' = LocalQuestions
    BY <2>1 DEF Parsed, LocalQuestions
  <2>5. PartsAreOfDocuments' /\ QuestionsAreOfDocuments'
    BY <2>1, <2>4, OfOrder DEF SheetsInv, PartsAreOfDocuments, QuestionsAreOfDocuments
  <2>6. ElementsAreOfDocuments'
    BY <2>1, <2>4, OfOrder DEF SheetsInv, ElementsAreOfDocuments
  <2>7. ResultsAreOwn'
    BY <2>1, ResultsStay DEF SheetsInv
  <2>. QED
    BY <2>2, <2>3, <2>5, <2>6, <2>7 DEF SheetsInv
<1>. QED
  BY <1>1, OpenKeeps, ParseMaterialsKeeps, AskKeeps, MatchKeeps, MakeFailsKeeps, SaveKeeps,
     EndKeeps DEF Next

\* SheetsInv holds whatever documents an order has and whatever is made of their lines.
THEOREM SheetsInvariant == Spec => []SheetsInv
BY SheetsInvInit, SheetsInvNext, PTL DEF Spec

\* The variables of the two handlers keep their types, and the loop stays within the documents
\* (main.py: process_request_excel, process_calculation_excel).
THEOREM SheetTypes == Spec => []TypeOK
<1>1. SheetsInv => TypeOK
  BY DEF SheetsInv
<1>. QED
  BY <1>1, SheetsInvariant, PTL

\* A review asks at once for all parts of all documents that are not in the dictionary or are on
\* its black list (main.py:218).
THEOREM ReviewAsksEverything == Spec => []AsksEverythingAtOnce
<1>1. ASSUME SheetsInv PROVE AsksEverythingAtOnce
  <2>1. SUFFICES ASSUME outcome = "materials_review"
                 PROVE  questions = (UNION {PartsOf(d) : d \in ReadBefore(Len(order.docs))})
                                        \cap (Unlisted \cup Blacklist)
    BY DEF AsksEverythingAtOnce
  <2>2. /\ DocumentsInOrder /\ step = "done" /\ doc = Len(order.docs) + 1 /\ questions # {}
        /\ doc - 1 = Len(order.docs)
    BY <1>1, <2>1, DocumentsType DEF SheetsInv, DocumentsInOrder
  <2>3. questions = Asked(PartsUpTo(Len(order.docs)))
    BY <1>1, <2>1, <2>2 DEF SheetsInv, QuestionsAreOfDocuments
  <2>. QED
    BY <2>2, <2>3 DEF Asked, PartsUpTo
<1>. QED
  BY <1>1, SheetsInvariant, PTL

\* An exception leaves a handler exactly when the parser refuses a material of a document that
\* was reached, or the answers lack a part of one (parser.py:184, main.py:223).
THEOREM RaisesAreOfDocuments == Spec => []RaisedAsParsed
<1>1. SheetsInv => RaisedAsParsed
  BY DEF SheetsInv
<1>. QED
  BY <1>1, SheetsInvariant, PTL

\* The result files of a document are those of an order that has no other documents: the shared
\* dictionary of materials adds and repeats nothing (main.py:221-223).
THEOREM ResultsAreOfTheirDocuments == Spec => []ResultsAreOwn
<1>1. SheetsInv => ResultsAreOwn
  BY DEF SheetsInv
<1>. QED
  BY <1>1, SheetsInvariant, PTL

-----------------------------------------------------------------------------
(* Orders that come as Orders says                                          *)

LEMMA OrderIsKnown == Spec => [](order \in Orders)
<1>1. Init => order \in Orders
  BY DEF Init
<1>2. order \in Orders /\ [Next]_vars => (order \in Orders)'
  BY OrderStays
<1>. QED
  BY <1>1, <1>2, PTL DEF Spec

LEMMA SheetsOfOrder ==
    ASSUME order \in Orders, NEW d \in DOMAIN order.docs, NEW s \in DOMAIN order.docs[d].sheets
    PROVE  IsSheet(order.docs[d].sheets[s], Seq(Symbols))
BY OrdersAssumption

\* The materials of a document are lines of symbols.
LEMMA MaterialsAreLines ==
    ASSUME order \in Orders, NEW d \in DOMAIN order.docs
    PROVE  MaterialsOf(d) \subseteq Seq(Symbols)
<1>1. ASSUME NEW s \in DOMAIN order.docs[d].sheets
      PROVE  Materials(ReadSheet(order.docs[d].sheets[s])) \subseteq Seq(Symbols)
  BY SheetsOfOrder, MaterialsAreTexts
<1>. QED
  BY <1>1 DEF MaterialsOf

\* An exception leaves a handler exactly when a material of a document that was reached has a
\* bracket without a partner, or the answers lack a part of one (parser.py:184, main.py:223).
THEOREM RaisesForCause == Spec => []RaisedForCause
<1>1. ASSUME order \in Orders, RaisedAsParsed PROVE RaisedForCause
  <2>1. ASSUME NEW d \in ReadBefore(doc)
        PROVE  Blocks(d) <=> \/ \E m \in MaterialsOf(d) : ~Balanced(m)
                             \/ order.answers # NoAnswers /\ ~(PartsOf(d) \subseteq order.answers)
    <3>1. MaterialsOf(d) \subseteq Seq(Symbols)
      BY <1>1, MaterialsAreLines DEF ReadBefore
    <3>2. \A m \in MaterialsOf(d) : Raises(m) <=> ~Balanced(m)
      BY <3>1, ParseRaises
    <3>. QED
      BY <3>2 DEF Blocks
  <2>. QED
    BY <1>1, <2>1 DEF RaisedAsParsed, RaisedForCause
<1>. QED
  BY <1>1, OrderIsKnown, RaisesAreOfDocuments, PTL

\* Exactly the complete rows of an understood sheet are read, each value from the column of its
\* header, whatever the columns' order and number (table_processer.py:461).
THEOREM RowsAreReadByMeaning == Spec => []RowsReadByMeaning
<1>1. ASSUME order \in Orders, SheetsInv PROVE RowsReadByMeaning
  <2>1. SUFFICES ASSUME step = "parse" PROVE RowsReadByMeaning
    BY DEF RowsReadByMeaning
  <2>2. /\ doc \in DOMAIN order.docs /\ tables = ReadOf(doc)
        /\ DOMAIN tables = DOMAIN order.docs[doc].sheets
    BY <1>1, <2>1, AtDocument DEF ReadOf
  <2>3. ASSUME NEW s \in DOMAIN tables
        PROVE  /\ tables[s] = ReadSheet(order.docs[doc].sheets[s])
               /\ IsSheet(order.docs[doc].sheets[s], Seq(Symbols))
    BY <1>1, <2>2, SheetsOfOrder DEF ReadOf
  <2>. QED
    BY <2>3, ReadByMeaning DEF RowsReadByMeaning
<1>. QED
  BY <1>1, OrderIsKnown, SheetsInvariant, PTL

\* What the dictionary of materials holds between parsing and matching.
LEMMA ElementsAreParsed ==
    ASSUME order \in Orders, SheetsInv, step = "match", NEW m \in DOMAIN elements
    PROVE  /\ m \in Seq(Symbols) /\ ~Raises(m)
           /\ elements[m].prefix = Parse(m).prefix /\ elements[m].postfix = Parse(m).postfix
           /\ elements[m].parts = Parse(m).parts
<1>1. PICK d \in ReadBefore(doc) : m \in MaterialsOf(d)
  BY AtMatch DEF MaterialsUpTo
<1>2. m \in Seq(Symbols)
  <2>1. d \in DOMAIN order.docs
    BY <1>1 DEF ReadBefore
  <2>. QED BY <1>1, <2>1, MaterialsAreLines
<1>3. ~Raises(m)
  <2>1. CASE d \in ReadBefore(doc - 1)
    BY <1>1, <2>1, AtMatch DEF Blocks
  <2>2. CASE d = doc
    BY <1>1, <2>2, AtMatch
  <2>. QED BY <1>1, <2>1, <2>2, AtMatch
<1>4. elements[m] = [Element(m) EXCEPT !.matches = elements[m].matches]
  BY DEF SheetsInv, ElementsAreOfDocuments
<1>5. /\ elements[m].prefix = Parse(m).prefix /\ elements[m].postfix = Parse(m).postfix
      /\ elements[m].parts = Parse(m).parts
  BY <1>4 DEF Element
<1>. QED BY <1>2, <1>3, <1>5

\* The dictionary is asked for parts whose brackets are in pairs, and for a blank one only where a
\* delimiter has nothing before it (parser.py:378).
THEOREM PartsStayWhole == Spec => []PartsWellFormed
<1>1. ASSUME order \in Orders, SheetsInv PROVE PartsWellFormed
  <2>1. ASSUME step = "match", NEW m \in DOMAIN elements, NEW k \in DOMAIN elements[m].parts
        PROVE  /\ Balanced(elements[m].parts[k])
               /\ elements[m].parts[k] = <<>> => \E i \in DOMAIN m : NoPartBefore(m, i)
    <3>1. m \in Seq(Symbols) /\ ~Raises(m) /\ elements[m].parts = Parse(m).parts
      BY <1>1, <2>1, ElementsAreParsed
    <3>. QED BY <2>1, <3>1, PartsAreWhole
  <2>. QED BY <2>1 DEF PartsWellFormed
<1>. QED
  BY <1>1, OrderIsKnown, SheetsInvariant, PTL

\* No letter of a material's name is lost, doubled or moved on its way to the dictionary
\* (parser.py:318, parser.py:370).
THEOREM NoLetterIsLost == Spec => []NothingLost
<1>1. ASSUME order \in Orders, SheetsInv PROVE NothingLost
  <2>1. ASSUME step = "match", NEW m \in DOMAIN elements
        PROVE  LettersOf(elements[m].prefix \o FlattenSeq(elements[m].parts) \o elements[m].postfix)
                    = LettersOf(m)
    <3>1. /\ m \in Seq(Symbols) /\ ~Raises(m)
          /\ elements[m].prefix = Parse(m).prefix /\ elements[m].postfix = Parse(m).postfix
          /\ elements[m].parts = Parse(m).parts
      BY <1>1, <2>1, ElementsAreParsed
    <3>2. LettersOf(Parse(m).prefix \o FlattenSeq(Parse(m).parts) \o Parse(m).postfix) = LettersOf(m)
      BY <3>1, LettersStay
    <3>. QED BY <3>1, <3>2, Zenon
  <2>. QED BY <2>1 DEF NothingLost
<1>. QED
  BY <1>1, OrderIsKnown, SheetsInvariant, PTL

-----------------------------------------------------------------------------
(* What the result files hold                                               *)

\* A sequence of n sequences with lengths len[1] .. len[n].
IsNested(ss, n, len) ==
    /\ ss = [k \in 1..n |-> ss[k]]
    /\ \A k \in 1..n : ss[k] = [i \in 1..len[k] |-> ss[k][i]]

\* What is at place i of the one is at the same place of the same sequence of the other.
SamePlace(ss, tt, n, len, x, y) ==
    \E k \in 1..n : \E j \in 1..len[k] : x = ss[k][j] /\ y = tt[k][j]

NestedOf(U, ss, n, len) ==
    /\ ss \in Seq(Seq(U)) /\ Len(ss) = n
    /\ \A k \in 1..n : ss[k] \in Seq(U) /\ Len(ss[k]) = len[k]

LEMMA NestedType ==
    ASSUME NEW n \in Nat, NEW len \in [1..n -> Nat], NEW ss, IsNested(ss, n, len)
    PROVE  \E U : NestedOf(U, ss, n, len)
<1>. DEFINE U == UNION {{ss[k][i] : i \in 1..len[k]} : k \in 1..n}
<1>1. ASSUME NEW k \in 1..n PROVE ss[k] \in Seq(U) /\ Len(ss[k]) = len[k]
  <2>1. \A i \in 1..len[k] : ss[k][i] \in U
    OBVIOUS
  <2>. HIDE DEF U
  <2>2. ss[k] \in [1..len[k] -> U] /\ len[k] \in Nat
    BY <2>1 DEF IsNested
  <2>. QED BY <2>2, FunctionIsSeq
<1>. HIDE DEF U
<1>2. ss \in [1..n -> Seq(U)]
  BY <1>1 DEF IsNested
<1>3. NestedOf(U, ss, n, len)
  BY <1>1, <1>2, FunctionIsSeq DEF NestedOf
<1>. QED BY <1>3

\* Two such sequences with the same lengths are flattened place by place.
LEMMA FlattenAlike ==
    ASSUME NEW n \in Nat, NEW len \in [1..n -> Nat], NEW ss, NEW tt,
           IsNested(ss, n, len), IsNested(tt, n, len)
    PROVE  /\ Len(FlattenSeq(ss)) \in Nat /\ Len(FlattenSeq(tt)) = Len(FlattenSeq(ss))
           /\ DOMAIN FlattenSeq(tt) = 1..Len(FlattenSeq(ss))
           /\ \A i \in 1..Len(FlattenSeq(ss)) :
                SamePlace(ss, tt, n, len, FlattenSeq(ss)[i], FlattenSeq(tt)[i])
<1>1. PICK S : NestedOf(S, ss, n, len)
  BY NestedType, Zenon
<1>2. PICK T : NestedOf(T, tt, n, len)
  BY NestedType, Zenon
<1>3. PICK f : f \in [0..Len(ss) -> Seq(S)] /\ Flattens(ss, f)
  BY <1>1, FlattenSteps DEF NestedOf
<1>4. PICK g : g \in [0..Len(tt) -> Seq(T)] /\ Flattens(tt, g)
  BY <1>2, FlattenSteps DEF NestedOf
<1>5. /\ f[0] = <<>> /\ \A k \in 1..n : f[k] = f[k - 1] \o ss[k]
      /\ FlattenSeq(ss) = f[n] /\ \A k \in 0..n : f[k] \in Seq(S)
  BY <1>1, <1>3 DEF Flattens, NestedOf
<1>6. /\ g[0] = <<>> /\ \A k \in 1..n : g[k] = g[k - 1] \o tt[k]
      /\ FlattenSeq(tt) = g[n] /\ \A k \in 0..n : g[k] \in Seq(T)
  BY <1>2, <1>4 DEF Flattens, NestedOf
<1>. DEFINE Same(x, y) == SamePlace(ss, tt, n, len, x, y)
            B == {k \in 0..n : /\ Len(f[k]) = Len(g[k])
                               /\ \A i \in 1..Len(f[k]) : Same(f[k][i], g[k][i])}
<1>7. 0 \in B
  <2>1. Len(f[0]) = 0 /\ Len(g[0]) = 0
    BY <1>5, <1>6
  <2>2. 1..0 = {}
    OBVIOUS
  <2>. QED BY <2>1, <2>2
<1>8. ASSUME NEW k \in 1..n, k - 1 \in B PROVE k \in B
  <2>. DEFINE a == f[k - 1]
              b == g[k - 1]
              s == ss[k]
              t == tt[k]
              l == Len(a)
              m == len[k]
  <2>1. k \in 0..n /\ k - 1 \in 0..n
    OBVIOUS
  <2>2. /\ a \in Seq(S) /\ s \in Seq(S) /\ f[k] = a \o s /\ Len(s) = m
        /\ b \in Seq(T) /\ t \in Seq(T) /\ g[k] = b \o t /\ Len(t) = m
    BY <1>1, <1>2, <1>5, <1>6, <2>1 DEF NestedOf
  <2>3. Len(b) = l /\ \A i \in 1..l : Same(a[i], b[i])
    BY <1>8
  <2>4. m \in Nat /\ \A j \in 1..m : Same(s[j], t[j])
    BY DEF SamePlace
  <2>. HIDE DEF a, b, s, t, m, Same
  <2>5. /\ l \in Nat /\ Len(f[k]) = l + m
        /\ \A i \in 1..l + m : f[k][i] = IF i <= l THEN a[i] ELSE s[i - l]
    BY <2>2, ConcatProperties, LenProperties
  <2>6. /\ Len(g[k]) = l + m
        /\ \A i \in 1..l + m : g[k][i] = IF i <= l THEN b[i] ELSE t[i - l]
    <3>1. /\ Len(b \o t) = Len(b) + Len(t)
          /\ \A i \in 1..Len(b) + Len(t) : (b \o t)[i] = IF i <= Len(b) THEN b[i] ELSE t[i - Len(b)]
      BY <2>2, ConcatProperties
    <3>. HIDE DEF l
    <3>2. g[k] = b \o t /\ Len(b) = l /\ Len(t) = m
      BY <2>2, <2>3
    <3>. QED BY <3>1, <3>2
  <2>. HIDE DEF l
  <2>7. ASSUME NEW i \in 1..l + m PROVE Same(f[k][i], g[k][i])
    <3>1. CASE i <= l
      <4>1. i \in 1..l
        BY <2>4, <2>5, <3>1
      <4>. QED BY <2>3, <2>5, <2>6, <3>1, <4>1
    <3>2. CASE ~(i <= l)
      <4>1. i - l \in 1..m
        BY <2>4, <2>5, <3>2
      <4>. QED BY <2>4, <2>5, <2>6, <3>2, <4>1
    <3>. QED BY <3>1, <3>2
  <2>. QED BY <2>1, <2>5, <2>6, <2>7
<1>9. \A k \in 0..n : k \in B
  <2>. HIDE DEF B
  <2>. QED BY <1>7, <1>8, UpTo
<1>10. n \in B
  <2>. HIDE DEF B
  <2>. QED BY <1>9
<1>11. Len(f[n]) = Len(g[n]) /\ \A i \in 1..Len(f[n]) : Same(f[n][i], g[n][i])
  BY <1>10
<1>12. Len(f[n]) \in Nat /\ DOMAIN g[n] = 1..Len(g[n])
  <2>1. f[n] \in Seq(S) /\ g[n] \in Seq(T)
    BY <1>5, <1>6
  <2>. QED BY <2>1, LenProperties
<1>. HIDE DEF B
<1>. QED BY <1>5, <1>6, <1>11, <1>12

\* Entries are written where no column of the row's own is, in order and each once.
BothHeld(own, first, matches, free, m) ==
    /\ HoldsEntries(WithEntries(own, first, matches), first, free, m)
    /\ \A c \in DOMAIN own : WithEntries(own, first, matches)[c] = own[c]
LEMMA EntriesHeld ==
    ASSUME NEW m, NEW S, Parse(m).parts \in Seq(S), NEW own, NEW first \in Nat, NEW free \in Nat,
           DOMAIN own \cap first..first + free - 1 = {}, NEW matches,
           matches = [k \in DOMAIN Parse(m).parts |-> Entry(Parse(m).parts[k])]
    PROVE  BothHeld(own, first, matches, free, m)
<1>. DEFINE names == Parse(m).parts
            cells == WithEntries(own, first, matches)
            n == Len(names)
<1>1. n \in Nat /\ DOMAIN names = 1..n
  BY LenProperties
<1>. HIDE DEF names, n
<1>2. matches = [k \in 1..n |-> Entry(names[k])]
  BY <1>1 DEF names
<1>3. Len(matches) = n
  <2>1. matches \in [1..n -> {Entry(names[k]) : k \in 1..n}]
    BY <1>2
  <2>. QED BY <1>1, <2>1, FunctionIsSeq
<1>4. cells = [c \in DOMAIN own \cup first..first + n - 1 |->
                  IF c \in DOMAIN own THEN own[c] ELSE matches[c - first + 1]]
  BY <1>3 DEF WithEntries
<1>. HIDE DEF cells
<1>5. ASSUME NEW c \in first..first + free - 1
      PROVE  IF c - first + 1 \in DOMAIN names
             THEN c \in DOMAIN cells /\ cells[c] = Entry(names[c - first + 1])
             ELSE c \notin DOMAIN cells
  <2>1. c \notin DOMAIN own /\ c \in Int
    OBVIOUS
  <2>2. c - first + 1 \in 1..n <=> c \in first..first + n - 1
    BY <1>1
  <2>. QED BY <1>1, <1>2, <1>4, <2>1, <2>2
<1>6. \A c \in DOMAIN own : cells[c] = own[c]
  BY <1>4
<1>. QED BY <1>5, <1>6 DEF BothHeld, HoldsEntries, names, cells

\* The sides of a row are its width and the one other size its sheet has; like the amount they
\* are cells with a number (table_processer.py:548).
OtherSide(row) == IF "HEIGHT" \in DOMAIN row.at THEN "HEIGHT" ELSE "LENGTH"
LEMMA SizesRead ==
    ASSUME NEW T, NEW sheet, IsSheet(sheet, T), NEW i \in DOMAIN ReadSheet(sheet).rows,
           NEW row, row = ReadSheet(sheet).rows[i]
    PROVE  /\ Sides(ReadSheet(sheet).headers)[1] = "WIDTH"
           /\ Sides(ReadSheet(sheet).headers)[2] = OtherSide(row)
           /\ \A h \in {"WIDTH", OtherSide(row), "AMOUNT"} : row.at[h] \in Nat \cup {Unreadable}
<1>. DEFINE v == VariantOf(sheet)
            headers == Range(v)
<1>1. Reads(sheet)
  <2>1. SUFFICES ASSUME ~Reads(sheet) PROVE FALSE
    OBVIOUS
  <2>2. ReadSheet(sheet).rows = <<>> /\ DOMAIN <<>> = {}
    BY <2>1, ReadSheetIs DEF NothingRead
  <2>. QED BY <2>2
<1>2. /\ ReadSheet(sheet).headers = headers /\ i \in DOMAIN RowsOf(sheet)
      /\ DOMAIN row.at = headers
      /\ \A h \in headers :
            row.at[h] = sheet[RowsOf(sheet)[i]][TargetColumns(sheet)[PlaceOf(v, h)]].value
  BY <1>1, ReadSheetIs
<1>3. headers \in UnderstoodHeaders
  <2>1. /\ FirstHeader(sheet) \in DOMAIN sheet /\ IsVariant(v)
        /\ Types(sheet, FirstHeader(sheet)) = v
    BY <1>1, SheetRead, VariantsAre
  <2>. QED BY <2>1, RowOfVariant
<1>4. PICK side \in {"HEIGHT", "LENGTH"}, extra \in SUBSET {"BARCODE", "MARKING"} :
          headers = {"MAT", "WIDTH", "AMOUNT", side} \cup extra
  BY <1>3 DEF UnderstoodHeaders
<1>5. ASSUME NEW h \in {"WIDTH", side, "AMOUNT"} PROVE row.at[h] \in Nat \cup {Unreadable}
  <2>1. h \in headers /\ h \in {"WIDTH", "HEIGHT", "LENGTH", "AMOUNT"}
    BY <1>4
  <2>2. PICK c : /\ c = TargetColumns(sheet)[PlaceOf(v, h)]
                 /\ IsCell(sheet[RowsOf(sheet)[i]][c], T)
                 /\ sheet[RowsOf(sheet)[i]][c].type \in Permitted(h)
    <3>. HIDE DEF headers
    <3>. QED BY <1>1, <1>2, <2>1, ReadCell DEF headers
  <2>3. Permitted(h) = {"NUMBER"}
    BY <2>1 DEF Permitted
  <2>4. sheet[RowsOf(sheet)[i]][c].value \in Nat \cup {Unreadable}
    BY <2>2, <2>3 DEF IsCell
  <2>5. row.at[h] = sheet[RowsOf(sheet)[i]][c].value
    BY <1>2, <2>1, <2>2
  <2>. QED BY <2>4, <2>5
<1>. HIDE DEF headers
<1>6. CASE side = "HEIGHT"
  <2>1. "WIDTH" \in headers /\ "HEIGHT" \in headers /\ "LENGTH" \notin headers
    BY <1>4, <1>6
  <2>2. Sides(headers) = <<"WIDTH", "HEIGHT">> /\ OtherSide(row) = "HEIGHT"
    BY <1>2, <2>1 DEF Sides, OtherSide
  <2>. QED BY <1>2, <1>5, <1>6, <2>2
<1>7. CASE side = "LENGTH"
  <2>1. "WIDTH" \in headers /\ "LENGTH" \in headers /\ "HEIGHT" \notin headers
    BY <1>4, <1>7
  <2>2. Sides(headers) = <<"WIDTH", "LENGTH">> /\ OtherSide(row) = "LENGTH"
    BY <1>2, <2>1 DEF Sides, OtherSide
  <2>. QED BY <1>2, <1>5, <1>7, <2>2
<1>. QED BY <1>6, <1>7

LEMMA WholeOf ==
    ASSUME NEW x \in Nat \cup {Unreadable}
    PROVE  Whole(x) * 10 \in x - 9..x
BY DEF Whole, Unreadable

\* A row of either file holds the entries of its material and its own sizes.
RowHeld(table, row, number, e) ==
    /\ HoldsEntries(RequestRow(table, row, e), 2, 9, row.at["MAT"])
    /\ HoldsSizes(RequestRow(table, row, e), <<11, 12, 13>>, row)
    /\ HoldsEntries(CalculationRow(table, row, number, e), 3, 7, row.at["MAT"])
    /\ HoldsSizes(CalculationRow(table, row, number, e), <<10, 11, 2>>, row)
LEMMA RowHolds ==
    ASSUME NEW T, NEW sheet, IsSheet(sheet, T), NEW i \in DOMAIN ReadSheet(sheet).rows,
           NEW row, row = ReadSheet(sheet).rows[i],
           NEW S, Parse(row.at["MAT"]).parts \in Seq(S), NEW e,
           e.matches = [k \in DOMAIN Parse(row.at["MAT"]).parts |-> Entry(Parse(row.at["MAT"]).parts[k])],
           NEW number
    PROVE  RowHeld(ReadSheet(sheet), row, number, e)
<1>. DEFINE table == ReadSheet(sheet)
            m == row.at["MAT"]
            width == row.at[Sides(table.headers)[1]]
            other == row.at[Sides(table.headers)[2]]
            amount == row.at["AMOUNT"]
            ownR == [c \in {1, 11, 12, 13, 14, 16, 18} |->
                        CASE c = 1 -> m
                          [] c = 11 -> Whole(width)
                          [] c = 12 -> Whole(other)
                          [] c = 13 -> Whole(amount)
                          [] c = 14 -> Field(row, "MARKING")
                          [] c = 16 -> Field(row, "BARCODE")
                          [] c = 18 -> e.postfix]
            ownC == [c \in {1, 2, 10, 11, 17} |->
                        CASE c = 1 -> number
                          [] c = 2 -> Whole(amount)
                          [] c = 10 -> Whole(width)
                          [] c = 11 -> Whole(other)
                          [] c = 17 -> "YES"]
<1>1. /\ width = row.at["WIDTH"] /\ other = row.at[OtherSide(row)]
      /\ width \in Nat \cup {Unreadable} /\ other \in Nat \cup {Unreadable}
      /\ amount \in Nat \cup {Unreadable}
  BY SizesRead
<1>2. /\ RequestRow(table, row, e) = WithEntries(ownR, 2, e.matches)
      /\ CalculationRow(table, row, number, e) = WithEntries(ownC, 3, e.matches)
  BY DEF RequestRow, CalculationRow
<1>. HIDE DEF width, other, amount, table
<1>3. /\ DOMAIN ownR = {1, 11, 12, 13, 14, 16, 18}
      /\ ownR[11] = Whole(width) /\ ownR[12] = Whole(other) /\ ownR[13] = Whole(amount)
      /\ DOMAIN ownC = {1, 2, 10, 11, 17}
      /\ ownC[10] = Whole(width) /\ ownC[11] = Whole(other) /\ ownC[2] = Whole(amount)
  OBVIOUS
<1>. HIDE DEF ownR, ownC
<1>4. DOMAIN ownR \cap 2..2 + 9 - 1 = {} /\ DOMAIN ownC \cap 3..3 + 7 - 1 = {}
  BY <1>3
<1>5. /\ HoldsEntries(WithEntries(ownR, 2, e.matches), 2, 9, m)
      /\ \A c \in DOMAIN ownR : WithEntries(ownR, 2, e.matches)[c] = ownR[c]
  <2>1. 2 \in Nat /\ 9 \in Nat
    OBVIOUS
  <2>2. BothHeld(ownR, 2, e.matches, 9, row.at["MAT"])
    BY <1>4, <2>1, EntriesHeld
  <2>. QED BY <2>2 DEF BothHeld
<1>6. /\ HoldsEntries(WithEntries(ownC, 3, e.matches), 3, 7, m)
      /\ \A c \in DOMAIN ownC : WithEntries(ownC, 3, e.matches)[c] = ownC[c]
  <2>1. 3 \in Nat /\ 7 \in Nat
    OBVIOUS
  <2>2. BothHeld(ownC, 3, e.matches, 7, row.at["MAT"])
    BY <1>4, <2>1, EntriesHeld
  <2>. QED BY <2>2 DEF BothHeld
<1>7. ASSUME NEW cells, NEW columns, cells[columns[1]] = Whole(width),
             cells[columns[2]] = Whole(other), cells[columns[3]] = Whole(amount)
      PROVE  HoldsSizes(cells, columns, row)
  <2>1. /\ Whole(width) * 10 \in width - 9..width /\ Whole(other) * 10 \in other - 9..other
        /\ Whole(amount) * 10 \in amount - 9..amount
    BY <1>1, WholeOf
  <2>2. /\ cells[columns[1]] * 10 \in row.at["WIDTH"] - 9..row.at["WIDTH"]
        /\ cells[columns[2]] * 10 \in row.at[OtherSide(row)] - 9..row.at[OtherSide(row)]
        /\ cells[columns[3]] * 10 \in row.at["AMOUNT"] - 9..row.at["AMOUNT"]
    BY <1>1, <1>7, <2>1 DEF amount
  <2>. QED BY <2>2 DEF HoldsSizes, OtherSide
<1>. DEFINE cellsR == WithEntries(ownR, 2, e.matches)
            cellsC == WithEntries(ownC, 3, e.matches)
<1>8. /\ cellsR[11] = Whole(width) /\ cellsR[12] = Whole(other) /\ cellsR[13] = Whole(amount)
      /\ cellsC[10] = Whole(width) /\ cellsC[11] = Whole(other) /\ cellsC[2] = Whole(amount)
  BY <1>3, <1>5, <1>6
<1>. HIDE DEF cellsR, cellsC
<1>9. HoldsSizes(cellsR, <<11, 12, 13>>, row) /\ HoldsSizes(cellsC, <<10, 11, 2>>, row)
  <2>1. /\ <<11, 12, 13>>[1] = 11 /\ <<11, 12, 13>>[2] = 12 /\ <<11, 12, 13>>[3] = 13
        /\ <<10, 11, 2>>[1] = 10 /\ <<10, 11, 2>>[2] = 11 /\ <<10, 11, 2>>[3] = 2
    OBVIOUS
  <2>. QED BY <1>7, <1>8, <2>1
<1>. QED BY <1>2, <1>5, <1>6, <1>9 DEF RowHeld, table, cellsR, cellsC

LEMMA RowsType ==
    ASSUME NEW T, NEW sheet, IsSheet(sheet, T), NEW rows, rows = ReadSheet(sheet).rows
    PROVE  Len(rows) \in Nat /\ DOMAIN rows = 1..Len(rows) /\ rows = [i \in 1..Len(rows) |-> rows[i]]
<1>1. CASE ~Reads(sheet)
  <2>1. rows = <<>>
    BY <1>1, ReadSheetIs DEF NothingRead
  <2>2. Len(<<>>) = 0 /\ DOMAIN <<>> = 1..0 /\ <<>> = [i \in 1..0 |-> <<>>[i]]
    OBVIOUS
  <2>. QED BY <2>1, <2>2
<1>2. CASE Reads(sheet)
  <2>. DEFINE n == Len(RowsOf(sheet))
  <2>1. n \in Nat /\ DOMAIN RowsOf(sheet) = 1..n
    BY <1>2, SheetRead, LenProperties
  <2>. HIDE DEF n
  <2>2. DOMAIN rows = 1..n /\ rows = [i \in 1..n |-> rows[i]]
    <3>. DEFINE Row(i) == [from |-> RowsOf(sheet)[i],
                           at |-> [h \in Range(VariantOf(sheet)) |->
                                      sheet[RowsOf(sheet)[i]][TargetColumns(sheet)[
                                          PlaceOf(VariantOf(sheet), h)]].value]]
    <3>1. ReadSheet(sheet) = [headers |-> Range(VariantOf(sheet)),
                              rows |-> [i \in DOMAIN RowsOf(sheet) |-> Row(i)]]
      BY <1>2, ReadSheetIs, Zenon
    <3>. HIDE DEF Row
    <3>2. rows = [i \in 1..n |-> Row(i)]
      BY <2>1, <3>1
    <3>. QED BY <3>2
  <2>3. Len(rows) = n
    <3>1. rows \in [1..n -> {rows[i] : i \in 1..n}]
      BY <2>2
    <3>. QED BY <2>1, <3>1, FunctionIsSeq
  <2>. QED BY <2>1, <2>2, <2>3
<1>. QED BY <1>1, <1>2

\* The element of a material when its document is the only one.
LEMMA OwnMatches ==
    ASSUME NEW d, NEW m \in MaterialsOf(d), NEW S, Parse(m).parts \in Seq(S)
    PROVE  OwnElements(d)[m].matches = [k \in DOMAIN Parse(m).parts |-> Entry(Parse(m).parts[k])]
<1>. DEFINE names == Parse(m).parts
            entries == [k \in DOMAIN names |-> Entry(names[k])]
            e == Element(m)
<1>1. e.parts = names /\ e.matches = <<>> /\ DOMAIN e = {"prefix", "parts", "postfix", "matches"}
  BY DEF Element
<1>2. OwnElements(d)[m] = [e EXCEPT !.matches = @ \o [k \in DOMAIN e.parts |-> Entry(e.parts[k])]]
  BY DEF OwnElements, MatchedOnce
<1>. HIDE DEF e, names
<1>3. OwnElements(d)[m].matches = <<>> \o entries
  BY <1>1, <1>2
<1>4. Len(names) \in Nat /\ DOMAIN names = 1..Len(names)
  BY LenProperties DEF names
<1>5. entries \in Seq({Entry(names[k]) : k \in 1..Len(names)})
  <2>1. entries \in [1..Len(names) -> {Entry(names[k]) : k \in 1..Len(names)}]
    BY <1>4
  <2>. HIDE DEF entries
  <2>. QED BY <1>4, <2>1, FunctionIsSeq
<1>6. <<>> \o entries = entries
  <2>. HIDE DEF entries
  <2>. QED BY <1>5, ConcatEmptySeq
<1>. QED BY <1>3, <1>6 DEF names

\* The files made of a document that nothing blocks hold its rows.
RequestHolds(d, book) ==
    LET cells == FlattenSeq(book)
        rows == AllRows(d)
    IN  /\ Len(cells) = Len(rows)
        /\ \A i \in DOMAIN rows : /\ HoldsEntries(cells[i], 2, 9, rows[i].at["MAT"])
                                  /\ HoldsSizes(cells[i], <<11, 12, 13>>, rows[i])
CalculationHolds(d, book) ==
    LET rows == AllRows(d)
    IN  /\ Len(book) = Len(rows)
        /\ \A i \in DOMAIN rows : /\ HoldsEntries(book[i], 3, 7, rows[i].at["MAT"])
                                  /\ HoldsSizes(book[i], <<10, 11, 2>>, rows[i])

LEMMA BooksOfDocument ==
    ASSUME order \in Orders, NEW d \in DOMAIN order.docs, ~Blocks(d)
    PROVE  LET request == RequestBook(ReadOf(d), OwnElements(d))
               calculation == CalculationBook(ReadOf(d), OwnElements(d))
           IN  /\ request # NoBook => RequestHolds(d, request)
               /\ calculation # NoBook => CalculationHolds(d, calculation)
<1>. DEFINE sheets == order.docs[d].sheets
            read == ReadOf(d)
            own == OwnElements(d)
            n == Len(sheets)
            len == [s \in 1..n |-> Len(read[s].rows)]
            R(s, i) == RequestRow(read[s], read[s].rows[i], own[read[s].rows[i].at["MAT"]])
            C(s, i) == CalculationRow(read[s], read[s].rows[i], i, own[read[s].rows[i].at["MAT"]])
            rowsOf == [s \in DOMAIN read |-> read[s].rows]
            request == [s \in DOMAIN read |-> [i \in DOMAIN read[s].rows |-> R(s, i)]]
            sections == [s \in DOMAIN read |-> [i \in DOMAIN read[s].rows |-> C(s, i)]]
<1>1. n \in Nat /\ DOMAIN sheets = 1..n /\ \A s \in 1..n : IsSheet(sheets[s], Seq(Symbols))
  <2>1. sheets \in Seq(Range(sheets))
    BY OrdersAssumption
  <2>2. n \in Nat /\ DOMAIN sheets = 1..n
    BY <2>1, LenProperties
  <2>. QED BY <2>2, SheetsOfOrder
<1>2. DOMAIN read = 1..n /\ \A s \in 1..n : read[s] = ReadSheet(sheets[s])
  BY <1>1 DEF ReadOf
<1>3. ASSUME NEW s \in 1..n
      PROVE  /\ Len(read[s].rows) \in Nat /\ DOMAIN read[s].rows = 1..Len(read[s].rows)
             /\ read[s].rows = [i \in 1..Len(read[s].rows) |-> read[s].rows[i]]
  <2>. HIDE DEF read, sheets
  <2>. QED BY <1>1, <1>2, RowsType
<1>4. ASSUME NEW s \in 1..n, NEW i \in 1..Len(read[s].rows)
      PROVE  /\ HoldsEntries(R(s, i), 2, 9, read[s].rows[i].at["MAT"])
             /\ HoldsSizes(R(s, i), <<11, 12, 13>>, read[s].rows[i])
             /\ HoldsEntries(C(s, i), 3, 7, read[s].rows[i].at["MAT"])
             /\ HoldsSizes(C(s, i), <<10, 11, 2>>, read[s].rows[i])
  <2>. DEFINE row == read[s].rows[i]
              m == row.at["MAT"]
  <2>1. m \in MaterialsOf(d)
    <3>1. m \in Materials(read[s])
      <4>. HIDE DEF read, sheets
      <4>. QED BY <1>3 DEF Materials
    <3>2. read[s] = ReadSheet(sheets[s]) /\ s \in DOMAIN order.docs[d].sheets
      BY <1>1, <1>2
    <3>. HIDE DEF read, m
    <3>. QED BY <3>1, <3>2 DEF MaterialsOf
  <2>2. m \in Seq(Symbols) /\ ~Raises(m)
    BY <2>1, MaterialsAreLines DEF Blocks
  <2>. HIDE DEF m
  <2>3. Parse(m).parts \in Seq(Seq(Symbols))
    BY <2>2, PartsAreWhole
  <2>4. own[m].matches = [k \in DOMAIN Parse(m).parts |-> Entry(Parse(m).parts[k])]
    BY <2>1, <2>3, OwnMatches
  <2>. HIDE DEF row, own, read, sheets
  <2>5. /\ i \in DOMAIN ReadSheet(sheets[s]).rows /\ row = ReadSheet(sheets[s]).rows[i]
        /\ IsSheet(sheets[s], Seq(Symbols))
    BY <1>1, <1>2, <1>3 DEF row
  <2>6. RowHeld(ReadSheet(sheets[s]), row, i, own[m])
    BY <2>3, <2>4, <2>5, RowHolds DEF m
  <2>. QED BY <1>2, <2>6 DEF RowHeld, m, row
<1>. HIDE DEF R, C, read, sheets, own
<1>5. len \in [1..n -> Nat] /\ IsNested(rowsOf, n, len) /\ IsNested(request, n, len)
      /\ IsNested(sections, n, len)
  BY <1>2, <1>3 DEF IsNested
<1>6. /\ \A s \in 1..n : len[s] = Len(read[s].rows)
      /\ \A s \in 1..n : \A i \in 1..len[s] :
            rowsOf[s][i] = read[s].rows[i] /\ request[s][i] = R(s, i) /\ sections[s][i] = C(s, i)
  BY <1>2, <1>3
<1>7. AllRows(d) = FlattenSeq(rowsOf)
  BY DEF AllRows, read
<1>. HIDE DEF len, rowsOf, request, sections, n
<1>8. RequestHolds(d, request)
  <2>. DEFINE cells == FlattenSeq(request)
              rows == FlattenSeq(rowsOf)
  <2>1. /\ Len(rows) = Len(cells) /\ DOMAIN rows = 1..Len(cells)
        /\ \A i \in 1..Len(cells) : SamePlace(request, rowsOf, n, len, cells[i], rows[i])
    BY <1>1, <1>5, FlattenAlike DEF n
  <2>. HIDE DEF cells, rows
  <2>2. ASSUME NEW i \in DOMAIN rows
        PROVE  /\ HoldsEntries(cells[i], 2, 9, rows[i].at["MAT"])
               /\ HoldsSizes(cells[i], <<11, 12, 13>>, rows[i])
    <3>1. PICK s \in 1..n : \E j \in 1..len[s] : cells[i] = request[s][j] /\ rows[i] = rowsOf[s][j]
      BY <2>1 DEF SamePlace
    <3>2. PICK j \in 1..len[s] : cells[i] = request[s][j] /\ rows[i] = rowsOf[s][j]
      BY <3>1
    <3>3. j \in 1..Len(read[s].rows) /\ cells[i] = R(s, j) /\ rows[i] = read[s].rows[j]
      BY <1>6, <3>2
    <3>. QED BY <1>4, <3>3
  <2>. QED BY <1>7, <2>1, <2>2 DEF RequestHolds, cells, rows
<1>9. CalculationHolds(d, FlattenSeq(sections))
  <2>. DEFINE cells == FlattenSeq(sections)
              rows == FlattenSeq(rowsOf)
  <2>1. /\ Len(rows) = Len(cells) /\ DOMAIN rows = 1..Len(cells)
        /\ \A i \in 1..Len(cells) : SamePlace(sections, rowsOf, n, len, cells[i], rows[i])
    BY <1>1, <1>5, FlattenAlike DEF n
  <2>. HIDE DEF cells, rows
  <2>2. ASSUME NEW i \in DOMAIN rows
        PROVE  /\ HoldsEntries(cells[i], 3, 7, rows[i].at["MAT"])
               /\ HoldsSizes(cells[i], <<10, 11, 2>>, rows[i])
    <3>1. PICK s \in 1..n : \E j \in 1..len[s] : cells[i] = sections[s][j] /\ rows[i] = rowsOf[s][j]
      BY <2>1 DEF SamePlace
    <3>2. PICK j \in 1..len[s] : cells[i] = sections[s][j] /\ rows[i] = rowsOf[s][j]
      BY <3>1
    <3>3. j \in 1..Len(read[s].rows) /\ cells[i] = C(s, j) /\ rows[i] = read[s].rows[j]
      BY <1>6, <3>2
    <3>. QED BY <1>4, <3>3
  <2>. QED BY <1>7, <2>1, <2>2 DEF CalculationHolds, cells, rows
<1>10. /\ RequestBook(read, own) \in {NoBook, request}
       /\ CalculationBook(read, own) \in {NoBook, FlattenSeq(sections)}
  BY DEF RequestBook, CalculationBook, request, sections, R, C
<1>. QED BY <1>8, <1>9, <1>10 DEF read, own

LEMMA SavedUnblockedNext ==
    ASSUME SheetsInv, SavedUnblocked, [Next]_vars
    PROVE  SavedUnblocked'
<1>1. order' = order /\ \A d : Blocks(d)' <=> Blocks(d)
  BY OrderStays, OfOrder
<1>2. CASE UNCHANGED saved
  BY <1>1, <1>2 DEF SavedUnblocked
<1>3. CASE Save \/ SaveRefused
  <2>1. step = "write"
    BY <1>3 DEF Save, SaveRefused
  <2>2. ~Blocks(doc)
    BY <2>1 DEF SheetsInv, NoneBlocked
  <2>3. DOMAIN saved' = DOMAIN saved /\ \A d \in DOMAIN saved : d # doc => saved'[d] = saved[d]
    BY <1>3 DEF Save, SaveRefused
  <2>. QED BY <1>1, <2>2, <2>3 DEF SavedUnblocked
<1>. QED
  BY <1>2, <1>3 DEF Next, Open, ParseMaterials, Ask, Match, MakeFails, End, vars

\* Every row read from a document is in its result files once, with one entry for each part of
\* its material and with its own sizes, for any number of documents that share materials
\* (main.py:221-223, table_processer.py:597).
THEOREM BooksHoldTheirRows == Spec => []BooksHoldRows
<1>1. ASSUME order \in Orders, SheetsInv, SavedUnblocked PROVE BooksHoldRows
  <2>1. ASSUME NEW d \in DOMAIN saved
        PROVE  /\ saved[d].result # NoBook => RequestHolds(d, saved[d].result)
               /\ saved[d].articles # NoBook => CalculationHolds(d, saved[d].articles)
    <3>1. /\ d \in DOMAIN order.docs
          /\ saved[d].result \in {NoBook, RequestBook(ReadOf(d), OwnElements(d))}
          /\ saved[d].articles \in {NoBook, CalculationBook(ReadOf(d), OwnElements(d))}
      BY <1>1 DEF SheetsInv, TypeOK, ResultsAreOwn
    <3>2. saved[d].result # NoBook \/ saved[d].articles # NoBook => ~Blocks(d)
      BY <1>1 DEF SavedUnblocked
    <3>. QED BY <1>1, <3>1, <3>2, BooksOfDocument
  <2>. QED BY <2>1 DEF BooksHoldRows, RequestHolds, CalculationHolds
<1>2. Init => SavedUnblocked
  BY DEF Init, SavedUnblocked
<1>3. SheetsInv /\ SavedUnblocked /\ [Next]_vars => SavedUnblocked'
  BY SavedUnblockedNext
<1>. QED
  BY <1>1, <1>2, <1>3, OrderIsKnown, SheetsInvariant, PTL DEF Spec
=============================================================================
