----------------------- MODULE LocationSnippets_proofs -----------------------
(***************************************************************************)
(* Proofs about the snippets: as long as no two services share an array    *)
(* that has room, an append to the slice of one service leaves the lines   *)
(* of all others alone, so each service ends up with its own.              *)
(***************************************************************************)
EXTENDS LocationSnippets, SequenceTheorems, TLAPS

Cell == Line \cup {Free}

PhaseKeys(p) == IF p = "auth" THEN DOMAIN ing.appid ELSE Keys(p)

(* Slices lie within their arrays; no two of them share room.  A slice has  *)
(* the array it was parsed into, with length 0 in its name, or one that was *)
(* made for it.                                                             *)
Backed ==
    /\ arrays \in [DOMAIN arrays -> Seq(Cell)]
    /\ slices \in [DOMAIN slices -> [array : DOMAIN arrays, len : Nat]]
    /\ \A s \in DOMAIN slices :
          /\ slices[s].len <= Len(arrays[slices[s].array])
          /\ slices[s].array[1] = s \/ slices[s].array[2] = 0
          /\ Lines(s) \in Seq(Line)
    /\ \A s, t \in DOMAIN slices :
          s # t /\ slices[s].array = slices[t].array
              => slices[s].len = Len(arrays[slices[s].array])

(* What is left to visit are keys of the map of the phase; server and       *)
(* keepaliveRequests have what the loop over the latter has left.           *)
LoopInv ==
    /\ phase \in Phases \cup {"done"}
    /\ todo \subseteq PhaseKeys(phase)
    /\ inner # {} => phase = "requests"
    /\ inner \subseteq requests /\ requests \subseteq DOMAIN ing.requests
    /\ server \in Seq({<<"requests", Every, 1>>, <<"timeouts", Every, 1>>})
    /\ conflict \in BOOLEAN

SliceInv == ing \in Ingresses /\ Backed /\ LoopInv

-----------------------------------------------------------------------------
LEMMA PhaseNames ==
    /\ Range(HeaderPhases) = {"add", "response", "remove"}
    /\ Phases = {"auth", "requests", "timeouts", "add", "response", "remove"}
    /\ \A p \in Range(HeaderPhases) : \E k \in 1..3 : p = HeaderPhases[k]
  BY DEF Range, HeaderPhases, Phases

(* The lines of a slice are the used part of its array.                     *)
LEMMA LinesOfSlice ==
    ASSUME Backed, NEW s \in DOMAIN slices
    PROVE  /\ Len(Lines(s)) = slices[s].len
           /\ \A k \in 1..slices[s].len : Lines(s)[k] = arrays[slices[s].array][k]
  <1>1. arrays[slices[s].array] \in Seq(Cell) /\ slices[s].len \in Nat
    BY DEF Backed
  <1>2. \A k \in 1..slices[s].len : arrays[slices[s].array][k] \in Cell
    BY <1>1, ElementOfSeq DEF Backed
  <1> QED BY <1>1, <1>2, SubSeqProperties DEF Lines

LEMMA LinesType ==
    ASSUME Backed, NEW s
    PROVE  Lines(s) \in Seq(Line)
  BY EmptySeq DEF Backed, Lines

LEMMA Beginning ==
    ASSUME NEW cells \in Seq(Cell), NEW lines \in Seq(Line), Len(lines) <= Len(cells),
           \A k \in 1..Len(lines) : cells[k] = lines[k]
    PROVE  SubSeq(cells, 1, Len(lines)) = lines
  <1>1. Len(lines) \in Nat BY LenProperties
  <1>2. \A k \in 1..Len(lines) : cells[k] \in Line BY ElementOfSeq
  <1>3. /\ SubSeq(cells, 1, Len(lines)) \in Seq(Line)
        /\ Len(SubSeq(cells, 1, Len(lines))) = Len(lines)
        /\ \A k \in 1..Len(lines) : SubSeq(cells, 1, Len(lines))[k] = cells[k]
    BY <1>1, <1>2, SubSeqProperties
  <1> QED BY <1>3, SeqEqual

(* An array with as many cells as its capacity, the lines at its beginning. *)
LEMMA PaddedType ==
    ASSUME NEW lines \in Seq(Line), NEW cap \in Nat, Len(lines) <= cap
    PROVE  /\ Padded(lines, cap) \in Seq(Cell)
           /\ Len(Padded(lines, cap)) = cap
           /\ \A k \in 1..Len(lines) : Padded(lines, cap)[k] = lines[k]
           /\ SubSeq(Padded(lines, cap), 1, Len(lines)) = lines
  <1> DEFINE P == Padded(lines, cap)
  <1>1. \A k \in 1..cap : (IF k <= Len(lines) THEN lines[k] ELSE Free) \in Cell
    BY ElementOfSeq DEF Cell
  <1>2. P \in [1..cap -> Cell] BY <1>1 DEF Padded
  <1>3. P \in Seq(Cell) /\ Len(P) = cap BY <1>2, SeqDef, LenProperties
  <1>4. \A k \in 1..Len(lines) : P[k] = lines[k] BY DEF Padded
  <1> HIDE DEF P
  <1>5. SubSeq(P, 1, Len(lines)) = lines BY <1>3, <1>4, Beginning
  <1> QED BY <1>3, <1>4, <1>5 DEF P

(* An array that nobody else has, with the lines of s at its beginning.     *)
LEMMA OwnArray ==
    ASSUME Backed, NEW s, NEW id, NEW cells \in Seq(Cell), NEW need \in Nat,
           NEW new \in Seq(Line), new = SubSeq(cells, 1, need), need <= Len(cells),
           id[1] = s \/ id[2] = 0,
           \A t \in DOMAIN slices : t # s => slices[t].array # id,
           arrays' = Put(arrays, id, cells),
           slices' = Put(slices, s, [array |-> id, len |-> need])
    PROVE  Backed' /\ Lines(s)' = new /\ \A t : t # s => Lines(t)' = Lines(t)
  <1>1. /\ DOMAIN arrays' = DOMAIN arrays \cup {id}
        /\ arrays'[id] = cells
        /\ \A x \in DOMAIN arrays : x # id => arrays'[x] = arrays[x]
        /\ arrays' \in [DOMAIN arrays' -> Seq(Cell)]
    BY DEF Put, Backed
  <1>2. /\ DOMAIN slices' = DOMAIN slices \cup {s}
        /\ slices'[s] = [array |-> id, len |-> need]
        /\ \A t \in DOMAIN slices : t # s => slices'[t] = slices[t]
        /\ slices' \in [DOMAIN slices' -> [array : DOMAIN arrays', len : Nat]]
    <2>1. [array |-> id, len |-> need] \in [array : DOMAIN arrays', len : Nat] BY <1>1
    <2>2. \A t \in DOMAIN slices : slices[t] \in [array : DOMAIN arrays', len : Nat]
      BY <1>1 DEF Backed
    <2> QED BY <2>1, <2>2 DEF Put
  <1>3. Lines(s)' = new
    BY <1>1, <1>2 DEF Lines
  <1>4. \A t \in DOMAIN slices : t # s => /\ slices[t].array \in DOMAIN arrays
                                         /\ arrays'[slices[t].array] = arrays[slices[t].array]
    BY <1>1 DEF Backed
  <1>5. ASSUME NEW t, t # s PROVE Lines(t)' = Lines(t)
    BY <1>2, <1>4, <1>5 DEF Lines
  <1>6. \A t \in DOMAIN slices' :
          /\ slices'[t].len <= Len(arrays'[slices'[t].array])
          /\ slices'[t].array[1] = t \/ slices'[t].array[2] = 0
          /\ Lines(t)' \in Seq(Line)
    <2> SUFFICES ASSUME NEW t \in DOMAIN slices'
                 PROVE  /\ slices'[t].len <= Len(arrays'[slices'[t].array])
                        /\ slices'[t].array[1] = t \/ slices'[t].array[2] = 0
                        /\ Lines(t)' \in Seq(Line)
      OBVIOUS
    <2>1. CASE t = s BY <2>1, <1>1, <1>2, <1>3
    <2>2. CASE t # s BY <2>2, <1>2, <1>4, <1>5 DEF Backed
    <2> QED BY <2>1, <2>2
  <1>7. ASSUME NEW t \in DOMAIN slices', NEW u \in DOMAIN slices',
               t # u, slices'[t].array = slices'[u].array
        PROVE  slices'[t].len = Len(arrays'[slices'[t].array])
    <2>1. t # s /\ u # s BY <1>2, <1>7
    <2> QED BY <2>1, <1>2, <1>4, <1>7 DEF Backed
  <1> QED BY <1>1, <1>2, <1>3, <1>5, <1>6, <1>7 DEF Backed

(* An append gives a slice its lines and changes those of no other: it      *)
(* writes in place only where there is room, and then nobody shares it.     *)
LEMMA AppendStep ==
    ASSUME Backed, NEW s, NEW lines \in Seq(Line), lines # <<>>, AppendLines(s, lines)
    PROVE  /\ Backed'
           /\ Lines(s)' = Lines(s) \o lines
           /\ \A t : t # s => Lines(t)' = Lines(t)
  <1> DEFINE old == Lines(s)
             need == Len(old) + Len(lines)
  <1>1. old \in Seq(Line) /\ Len(old) \in Nat /\ Len(lines) \in Nat \ {0} /\ need \in Nat
    BY LinesType, EmptySeq, LenProperties
  <1>2. /\ old \o lines \in Seq(Line) /\ Len(old \o lines) = need
        /\ \A k \in 1..need : (old \o lines)[k] = IF k <= Len(old) THEN old[k] ELSE lines[k - Len(old)]
    BY <1>1, ConcatProperties
  <1>3. Cap(s) \in Nat
    BY LenProperties DEF Cap, Backed
  <1>4. CASE need <= Cap(s)
    <2> DEFINE id == slices[s].array
               cells == [k \in 1..Cap(s) |-> IF k \in (Len(old) + 1)..need
                                             THEN lines[k - Len(old)] ELSE arrays[id][k]]
    <2>1. s \in DOMAIN slices BY <1>1, <1>4 DEF Cap
    <2>2. /\ arrays[id] \in Seq(Cell) /\ Cap(s) = Len(arrays[id])
          /\ slices[s].len = Len(old)
          /\ \A k \in 1..Len(old) : arrays[id][k] = old[k]
      BY <2>1, LinesOfSlice DEF Cap, Backed
    <2>3. \A k \in 1..Cap(s) : cells[k] \in Cell
      BY <1>1, <1>3, <2>2, ElementOfSeq DEF Cell
    <2>4. cells \in Seq(Cell) /\ Len(cells) = Cap(s)
      BY <1>3, <2>3, SeqDef, LenProperties
    <2>5. \A k \in 1..need : cells[k] = (old \o lines)[k]
      BY <1>1, <1>2, <1>3, <1>4, <2>2
    <2>6. \A t \in DOMAIN slices : t # s => slices[t].array # id
      BY <1>1, <1>4, <2>1, <2>2 DEF Backed
    <2>7. id[1] = s \/ id[2] = 0 BY <2>1 DEF Backed
    <2>8. /\ arrays' = Put(arrays, id, cells)
          /\ slices' = Put(slices, s, [array |-> id, len |-> need])
      BY <1>4 DEF AppendLines
    <2> HIDE DEF cells, id, need, old
    <2>9. SubSeq(cells, 1, need) = old \o lines
      BY <1>2, <1>4, <2>4, <2>5, Beginning
    <2>10. Backed' /\ Lines(s)' = old \o lines /\ \A t : t # s => Lines(t)' = Lines(t)
      <3>1. need \in Nat /\ old \o lines \in Seq(Line) /\ need <= Len(cells)
        BY <1>1, <1>2, <1>4, <2>4
      <3> QED BY <3>1, <2>4, <2>6, <2>7, <2>8, <2>9, OwnArray
    <2> QED BY <2>10 DEF old
  <1>5. CASE ~(need <= Cap(s))
    <2> DEFINE id == <<s, need>>
               cells == Padded(old \o lines, GrownCap(Cap(s), need))
    <2>1. GrownCap(Cap(s), need) \in Nat /\ need <= GrownCap(Cap(s), need)
      BY <1>1, <1>3 DEF GrownCap
    <2>2. /\ cells \in Seq(Cell) /\ need <= Len(cells)
          /\ SubSeq(cells, 1, need) = old \o lines
      BY <1>2, <2>1, PaddedType
    <2>3. \A t \in DOMAIN slices : t # s => slices[t].array # id
      BY <1>1 DEF Backed
    <2>4. /\ arrays' = Put(arrays, id, cells)
          /\ slices' = Put(slices, s, [array |-> id, len |-> need])
      BY <1>5 DEF AppendLines
    <2>5. id[1] = s \/ id[2] = 0 OBVIOUS
    <2> HIDE DEF cells, id, need, old
    <2>6. Backed' /\ Lines(s)' = old \o lines /\ \A t : t # s => Lines(t)' = Lines(t)
      <3>1. need \in Nat /\ old \o lines \in Seq(Line) BY <1>1, <1>2
      <3> QED BY <3>1, <2>2, <2>3, <2>4, <2>5, OwnArray
    <2> QED BY <2>6 DEF old
  <1> QED BY <1>4, <1>5

-----------------------------------------------------------------------------
(* A section has room for its lines.                                        *)
LEMMA CapEnough ==
    ASSUME NEW i \in Ingresses, NEW s \in DOMAIN i.sections
    PROVE  /\ ParsedCap(i, i.sections[s]) \in Nat
           /\ Len(i.sections[s]) <= ParsedCap(i, i.sections[s])
  <1> DEFINE n == Len(i.sections[s])
             Caps == {c \in {1, 2, 4, 8, 16} : c >= n}
  <1>1. n \in Nat /\ n <= 16 BY IngressesAssumption, LenProperties
  <1>2. \E c \in Caps : \A d \in Caps : c <= d
    <2>1. CASE n <= 1 BY <1>1, <2>1
    <2>2. CASE n = 2 BY <1>1, <2>2
    <2>3. CASE n \in 3..4 BY <1>1, <2>3
    <2>4. CASE n \in 5..8 BY <1>1, <2>4
    <2>5. CASE n \in 9..16 BY <1>1, <2>5
    <2> QED BY <1>1, <2>1, <2>2, <2>3, <2>4, <2>5
  <1>3. PICK m \in Caps : m = Min(Caps) BY <1>2 DEF Min
  <1>4. ParsedCap(i, i.sections[s]) = IF i.eos THEN Min(Caps) ELSE n
    BY DEF ParsedCap
  <1>5. m \in Nat /\ n <= m BY <1>1
  <1> HIDE DEF Caps, n
  <1>6. ParsedCap(i, i.sections[s]) \in Nat /\ n <= ParsedCap(i, i.sections[s])
    BY <1>1, <1>3, <1>4, <1>5
  <1> QED BY <1>6 DEF n

LEMMA SectionType ==
    ASSUME NEW i \in Ingresses, NEW s \in DOMAIN i.sections
    PROVE  i.sections[s] \in Seq(Line)
  BY IngressesAssumption, SeqMonotonic DEF Line

(* The section that a service gets.                                         *)
Section(s) == IF All \in DOMAIN ing.sections /\ s \in ing.services THEN All ELSE s

(* At first each slice is the section it was parsed from.                   *)
LEMMA ParsedLines ==
    ASSUME Init, NEW s \in DOMAIN slices
    PROVE  /\ Section(s) \in DOMAIN ing.sections
           /\ slices[s] = [array |-> <<Section(s), 0>>, len |-> Len(ing.sections[Section(s)])]
           /\ arrays[<<Section(s), 0>>]
                  = Padded(ing.sections[Section(s)], ParsedCap(ing, ing.sections[Section(s)]))
           /\ Lines(s) = ing.sections[Section(s)]
  <1>1. /\ Section(s) \in DOMAIN ing.sections
        /\ slices[s] = [array |-> <<Section(s), 0>>, len |-> Len(ing.sections[Section(s)])]
    BY DEF Init, ParsedSlices, Section
  <1>2. arrays[<<Section(s), 0>>]
            = Padded(ing.sections[Section(s)], ParsedCap(ing, ing.sections[Section(s)]))
    BY <1>1 DEF Init, ParsedArrays
  <1>3. Lines(s) = ing.sections[Section(s)]
    BY <1>1, <1>2, CapEnough, SectionType, PaddedType DEF Lines, Init
  <1> QED BY <1>1, <1>2, <1>3

LEMMA BackedInit ==
    ASSUME Init, NoSharedRoom(Ingresses)
    PROVE  Backed
  <1>1. ing \in Ingresses BY DEF Init
  <1>2. ASSUME NEW s \in DOMAIN ing.sections
        PROVE  /\ Padded(ing.sections[s], ParsedCap(ing, ing.sections[s])) \in Seq(Cell)
               /\ Len(Padded(ing.sections[s], ParsedCap(ing, ing.sections[s])))
                      = ParsedCap(ing, ing.sections[s])
    BY <1>1, CapEnough, SectionType, PaddedType
  <1>3. /\ DOMAIN arrays = {<<s, 0>> : s \in DOMAIN ing.sections}
        /\ arrays \in [DOMAIN arrays -> Seq(Cell)]
    BY <1>2 DEF Init, ParsedArrays
  <1>4. ASSUME NEW s \in DOMAIN slices
        PROVE  /\ slices[s] \in [array : DOMAIN arrays, len : Nat]
               /\ slices[s].array = <<Section(s), 0>>
               /\ slices[s].len = Len(ing.sections[Section(s)])
               /\ slices[s].len <= Len(arrays[slices[s].array])
               /\ Lines(s) \in Seq(Line)
    <2>1. /\ Section(s) \in DOMAIN ing.sections
          /\ slices[s] = [array |-> <<Section(s), 0>>, len |-> Len(ing.sections[Section(s)])]
          /\ arrays[<<Section(s), 0>>]
                 = Padded(ing.sections[Section(s)], ParsedCap(ing, ing.sections[Section(s)]))
          /\ Lines(s) = ing.sections[Section(s)]
      BY ParsedLines
    <2>2. /\ slices[s].array = <<Section(s), 0>>
          /\ slices[s].len = Len(ing.sections[Section(s)])
      BY <2>1
    <2>3. ing.sections[Section(s)] \in Seq(Line) BY <1>1, <2>1, SectionType
    <2>4. Len(ing.sections[Section(s)]) \in Nat BY <2>3, LenProperties
    <2>5. <<Section(s), 0>> \in DOMAIN arrays BY <1>3, <2>1
    <2>6. Len(ing.sections[Section(s)]) <= Len(arrays[<<Section(s), 0>>])
      BY <1>1, <1>2, <2>1, CapEnough
    <2> QED BY <2>1, <2>2, <2>3, <2>4, <2>5, <2>6
  <1>6. slices \in [DOMAIN slices -> [array : DOMAIN arrays, len : Nat]]
    BY <1>4 DEF Init, ParsedSlices
  <1>7. ASSUME NEW s \in DOMAIN slices PROVE slices[s].array[1] = s \/ slices[s].array[2] = 0
    BY <1>4
  <1>8. ASSUME NEW s \in DOMAIN slices, NEW t \in DOMAIN slices,
               s # t, slices[s].array = slices[t].array
        PROVE  slices[s].len = Len(arrays[slices[s].array])
    <2>1. <<Section(s), 0>> = <<Section(t), 0>> BY <1>4, <1>8
    <2>2. Section(s) = All /\ All \in DOMAIN ing.sections
      BY <1>8, <2>1, ParsedLines DEF Section
    <2>3. arrays[slices[s].array] = Padded(ing.sections[All], ParsedCap(ing, ing.sections[All]))
      BY <1>4, <2>2, ParsedLines
    <2> QED BY <1>1, <1>2, <1>4, <2>2, <2>3 DEF NoSharedRoom
  <1> QED BY <1>3, <1>4, <1>6, <1>7, <1>8 DEF Backed

-----------------------------------------------------------------------------
(* The lines of s are followed by more, those of all others stay.           *)
Adds(s, lines) ==
    /\ Backed' /\ ing' = ing
    /\ Lines(s)' = Lines(s) \o lines
    /\ \A t : t # s => Lines(t)' = Lines(t)

Quiet == Backed' /\ ing' = ing /\ \A t : Lines(t)' = Lines(t)

LEMMA KeysAreNames ==
    ASSUME ing \in Ingresses
    PROVE  /\ DOMAIN ing.appid \subseteq Name /\ DOMAIN ing.requests \subseteq Name
           /\ DOMAIN ing.timeouts \subseteq Name
           /\ \A p \in Range(HeaderPhases) : DOMAIN ing.headers[p] \subseteq Name
  BY PhaseNames DEF Name

LEMMA LineTypes ==
    ASSUME ing \in Ingresses
    PROVE  /\ \A s \in DOMAIN ing.appid : AuthLines(s) \in Seq(Line) /\ AuthLines(s) # <<>>
           /\ \A p \in Range(HeaderPhases) : \A s \in DOMAIN ing.headers[p] :
                 /\ [k \in 1..ing.headers[p][s] |-> <<p, s, k>>] \in Seq(Line)
                 /\ [k \in 1..ing.headers[p][s] |-> <<p, s, k>>] # <<>>
           /\ \A p \in {"requests", "timeouts"} : \A s \in Name :
                 <<<<p, s, 1>>>> \in Seq(Line) /\ <<<<p, s, 1>>>> # <<>>
  <1>1. \A p \in Phases, s \in Name, k \in Nat : <<p, s, k>> \in Line
    BY DEF Line
  <1>2. ASSUME NEW s \in DOMAIN ing.appid
        PROVE  AuthLines(s) \in Seq(Line) /\ AuthLines(s) # <<>>
    <2> DEFINE n == IF ing.appid[s] = "true" THEN 11 ELSE 10
    <2>1. n \in Nat \ {0} OBVIOUS
    <2>2. AuthLines(s) = [k \in 1..n |-> <<"auth", s, k>>] BY DEF AuthLines
    <2>3. "auth" \in Phases /\ s \in Name BY PhaseNames, KeysAreNames
    <2> HIDE DEF n
    <2>4. AuthLines(s) \in [1..n -> Line] BY <1>1, <2>1, <2>2, <2>3
    <2>5. AuthLines(s) \in Seq(Line) /\ Len(AuthLines(s)) = n BY <2>1, <2>4, SeqDef, LenProperties
    <2> QED BY <2>1, <2>5, EmptySeq
  <1>3. ASSUME NEW p \in Range(HeaderPhases), NEW s \in DOMAIN ing.headers[p]
        PROVE  /\ [k \in 1..ing.headers[p][s] |-> <<p, s, k>>] \in Seq(Line)
               /\ [k \in 1..ing.headers[p][s] |-> <<p, s, k>>] # <<>>
    <2> DEFINE n == ing.headers[p][s]
               h == [k \in 1..n |-> <<p, s, k>>]
    <2>1. n \in Nat \ {0} BY PhaseNames, IngressesAssumption
    <2>2. p \in Phases /\ s \in Name BY PhaseNames, KeysAreNames
    <2> HIDE DEF n
    <2>3. h \in [1..n -> Line] BY <1>1, <2>1, <2>2
    <2>4. h \in Seq(Line) /\ Len(h) = n BY <2>1, <2>3, SeqDef, LenProperties
    <2> HIDE DEF h
    <2>5. h \in Seq(Line) /\ h # <<>> BY <2>1, <2>4, EmptySeq
    <2> QED BY <2>5 DEF h, n
  <1>4. ASSUME NEW p \in {"requests", "timeouts"}, NEW s \in Name
        PROVE  <<<<p, s, 1>>>> \in Seq(Line) /\ <<<<p, s, 1>>>> # <<>>
    BY <1>1, PhaseNames
  <1> QED BY <1>2, <1>3, <1>4

LEMMA AddAuthStep ==
    ASSUME SliceInv, AddAuth
    PROVE  \E s \in todo :
              /\ todo' = todo \ {s} /\ Conflicts(s)
              /\ IF Conflicting(s) THEN Quiet ELSE Adds(s, AuthLines(s))
  <1> PICK s \in todo :
        /\ todo' = todo \ {s}
        /\ IF Conflicting(s) THEN UNCHANGED <<arrays, slices>> ELSE AppendLines(s, AuthLines(s))
        /\ Conflicts(s)
    BY DEF AddAuth
  <1>1. CASE Conflicting(s)
    BY <1>1 DEF SliceInv, Quiet, Backed, Lines, AddAuth
  <1>2. CASE ~Conflicting(s)
    <2> PICK lines : lines = AuthLines(s) OBVIOUS
    <2>1. lines \in Seq(Line) /\ lines # <<>>
      BY LineTypes DEF SliceInv, LoopInv, PhaseKeys, AddAuth
    <2>2. AppendLines(s, lines) BY <1>2
    <2>3. Backed' /\ Lines(s)' = Lines(s) \o lines /\ \A t : t # s => Lines(t)' = Lines(t)
      BY <2>1, <2>2, AppendStep DEF SliceInv
    <2> QED BY <1>2, <2>3 DEF Adds, AddAuth
  <1> QED BY <1>1, <1>2

LEMMA AddHeadersStep ==
    ASSUME SliceInv, AddHeaders
    PROVE  \E s \in todo : todo' = todo \ {s} /\ Adds(s, HeaderLines(s))
  <1> PICK s \in todo : todo' = todo \ {s} /\ AppendLines(s, HeaderLines(s))
    BY DEF AddHeaders
  <1> PICK lines : lines = HeaderLines(s) OBVIOUS
  <1>1. s \in DOMAIN ing.headers[phase] /\ phase \in Range(HeaderPhases)
    BY PhaseNames DEF SliceInv, LoopInv, PhaseKeys, Keys, AddHeaders
  <1>2. lines \in Seq(Line) /\ lines # <<>>
    BY <1>1, LineTypes DEF SliceInv, HeaderLines
  <1>3. Backed' /\ Lines(s)' = Lines(s) \o lines /\ \A t : t # s => Lines(t)' = Lines(t)
    BY <1>2, AppendStep DEF SliceInv
  <1> QED BY <1>3 DEF Adds, AddHeaders

LEMMA AddKeepaliveRequestsStep ==
    ASSUME SliceInv, AddKeepaliveRequests
    PROVE  \E s \in inner : inner' = inner \ {s} /\ Adds(s, <<<<"requests", s, 1>>>>)
  <1> PICK s \in inner : inner' = inner \ {s} /\ AppendLines(s, <<<<"requests", s, 1>>>>)
    BY DEF AddKeepaliveRequests
  <1>1. s \in Name BY KeysAreNames DEF SliceInv, LoopInv
  <1>2. <<<<"requests", s, 1>>>> \in Seq(Line) /\ <<<<"requests", s, 1>>>> # <<>>
    BY <1>1, LineTypes DEF SliceInv
  <1>3. /\ Backed' /\ Lines(s)' = Lines(s) \o <<<<"requests", s, 1>>>>
        /\ \A t : t # s => Lines(t)' = Lines(t)
    BY <1>2, AppendStep DEF SliceInv
  <1> QED BY <1>3 DEF Adds, AddKeepaliveRequests

LEMMA KeepaliveTimeoutStep ==
    ASSUME SliceInv, KeepaliveTimeout
    PROVE  \E s \in todo :
              /\ todo' = todo \ {s}
              /\ IF s = Every
                 THEN Quiet /\ server' = Append(server, <<"timeouts", s, 1>>)
                 ELSE Adds(s, <<<<"timeouts", s, 1>>>>) /\ server' = server
  <1> PICK s \in todo :
          /\ todo' = todo \ {s}
          /\ IF s = Every
             THEN /\ server' = Append(server, <<"timeouts", s, 1>>)
                  /\ UNCHANGED <<arrays, slices>>
             ELSE /\ AppendLines(s, <<<<"timeouts", s, 1>>>>)
                  /\ UNCHANGED server
    BY DEF KeepaliveTimeout, ServerWide
  <1>1. CASE s = Every
    BY <1>1 DEF SliceInv, Quiet, Backed, Lines, KeepaliveTimeout
  <1>2. CASE s # Every
    <2>1. s \in Name
      BY KeysAreNames, PhaseNames DEF SliceInv, LoopInv, PhaseKeys, Keys, KeepaliveTimeout
    <2>2. <<<<"timeouts", s, 1>>>> \in Seq(Line) /\ <<<<"timeouts", s, 1>>>> # <<>>
      BY <2>1, LineTypes DEF SliceInv
    <2>3. /\ Backed' /\ Lines(s)' = Lines(s) \o <<<<"timeouts", s, 1>>>>
          /\ \A t : t # s => Lines(t)' = Lines(t)
      BY <1>2, <2>2, AppendStep DEF SliceInv
    <2> QED BY <1>2, <2>3 DEF Adds, KeepaliveTimeout
  <1> QED BY <1>1, <1>2

LEMMA OtherStep ==
    ASSUME SliceInv, KeepaliveRequests \/ NextAnnotation \/ UNCHANGED vars
    PROVE  Quiet
  BY DEF SliceInv, Quiet, Backed, Lines, KeepaliveRequests, NextAnnotation, vars

-----------------------------------------------------------------------------
(* What an annotation adds to the lines of s, and what they are before it.  *)
Own(p, s) ==
    CASE p = "auth" ->
            IF s \in DOMAIN ing.appid /\ ~KeepsOwnAuth(s) THEN AuthLines(s) ELSE <<>>
      [] p = "add" -> OwnHeaders("add", s)
      [] p = "response" -> OwnHeaders("response", s)
      [] p = "remove" -> OwnHeaders("remove", s)
      [] p = "requests" -> OwnLine("requests", s, ing.requests)
      [] p = "timeouts" -> OwnLine("timeouts", s, ing.timeouts)
      [] OTHER -> <<>>

AfterAuth(s) == UserLines(s) \o Own("auth", s)
AfterAdd(s) == AfterAuth(s) \o Own("add", s)
AfterResponse(s) == AfterAdd(s) \o Own("response", s)
AfterRemove(s) == AfterResponse(s) \o Own("remove", s)
AfterRequests(s) == AfterRemove(s) \o Own("requests", s)
AfterTimeouts(s) == AfterRequests(s) \o Own("timeouts", s)

Before(p, s) ==
    CASE p = "auth" -> UserLines(s) [] p = "add" -> AfterAuth(s)
      [] p = "response" -> AfterAdd(s) [] p = "remove" -> AfterResponse(s)
      [] p = "requests" -> AfterRemove(s) [] p = "timeouts" -> AfterRequests(s)
      [] OTHER -> AfterTimeouts(s)

(* A service that is visited has the lines of the annotation, one that is   *)
(* still to be visited has them not.  The loop inside the loop over         *)
(* keepaliveRequests runs once for its only service.                        *)
TextInv ==
    /\ \A s \in ing.services :
          Lines(s) = IF s \in todo \cup inner THEN Before(phase, s)
                     ELSE Before(phase, s) \o Own(phase, s)
    /\ inner # {} => todo \subseteq {Every}
    /\ DOMAIN ing.requests \ {Every} \subseteq requests

(* The App ID lines of a service that was visited are there, unless the     *)
(* visit, or that of another one, has found a conflict.                     *)
AuthInv ==
    ~conflict => \A s \in DOMAIN ing.appid :
        (phase = "auth" /\ s \in todo) \/ Range(AuthLines(s)) \subseteq Range(Lines(s))

-----------------------------------------------------------------------------
LEMMA SliceInit == NoSharedRoom(Ingresses) /\ Init => SliceInv
  <1> SUFFICES ASSUME NoSharedRoom(Ingresses), Init PROVE SliceInv
    OBVIOUS
  <1>1. LoopInv
    BY PhaseNames, EmptySeq DEF Init, LoopInv, PhaseKeys
  <1> QED BY <1>1, BackedInit DEF Init, SliceInv

LEMMA FollowingPhase ==
    ASSUME phase \in Phases
    PROVE  Following(phase) \in (Phases \cup {"done"}) \ {"auth"}
  BY PhaseNames DEF Following

LEMMA ServerAppend ==
    ASSUME server \in Seq({<<"requests", Every, 1>>, <<"timeouts", Every, 1>>})
    PROVE  \A p \in {"requests", "timeouts"} : Append(server, <<p, Every, 1>>)
               \in Seq({<<"requests", Every, 1>>, <<"timeouts", Every, 1>>})
  <1> PICK D : D = {<<"requests", Every, 1>>, <<"timeouts", Every, 1>>}
    OBVIOUS
  <1>1. \A x \in D : Append(server, x) \in Seq(D)
    BY AppendProperties
  <1> QED BY <1>1

LEMMA SliceStep == SliceInv /\ [Next]_vars => SliceInv'
  <1> SUFFICES ASSUME SliceInv, [Next]_vars PROVE SliceInv'
    OBVIOUS
  <1> USE DEF SliceInv
  <1>1. CASE AddAuth
    <2>1. Backed' /\ ing' = ing /\ todo' \subseteq todo /\ conflict' \in BOOLEAN
      BY <1>1, AddAuthStep DEF Quiet, Adds, Conflicts, Conflicting, LoopInv
    <2> QED BY <1>1, <2>1 DEF LoopInv, PhaseKeys, AddAuth
  <1>2. CASE AddHeaders
    <2>1. Backed' /\ ing' = ing /\ todo' \subseteq todo
      BY <1>2, AddHeadersStep DEF Adds
    <2> QED BY <1>2, <2>1 DEF LoopInv, PhaseKeys, Keys, AddHeaders
  <1>3. CASE KeepaliveRequests
    <2>1. Backed' /\ ing' = ing BY <1>3, OtherStep DEF Quiet
    <2>2. server' \in Seq({<<"requests", Every, 1>>, <<"timeouts", Every, 1>>})
      BY <1>3, ServerAppend DEF LoopInv, KeepaliveRequests, ServerWide
    <2> QED BY <1>3, <2>1, <2>2 DEF LoopInv, PhaseKeys, Keys, KeepaliveRequests
  <1>4. CASE AddKeepaliveRequests
    <2>1. Backed' /\ ing' = ing /\ inner' \subseteq inner
      BY <1>4, AddKeepaliveRequestsStep DEF Adds
    <2> QED BY <1>4, <2>1 DEF LoopInv, PhaseKeys, Keys, AddKeepaliveRequests
  <1>5. CASE KeepaliveTimeout
    <2>1. Backed' /\ ing' = ing /\ todo' \subseteq todo
      BY <1>5, KeepaliveTimeoutStep DEF Adds, Quiet
    <2>2. server' \in Seq({<<"requests", Every, 1>>, <<"timeouts", Every, 1>>})
      BY <1>5, KeepaliveTimeoutStep, ServerAppend DEF LoopInv
    <2> QED BY <1>5, <2>1, <2>2 DEF LoopInv, PhaseKeys, Keys, KeepaliveTimeout
  <1>6. CASE NextAnnotation
    <2>1. Backed' /\ ing' = ing BY <1>6, OtherStep DEF Quiet
    <2>2. phase' \in (Phases \cup {"done"}) \ {"auth"}
      BY <1>6, FollowingPhase DEF LoopInv, NextAnnotation
    <2>3. todo' \subseteq PhaseKeys(phase)'
      BY <1>6, <2>1, <2>2 DEF PhaseKeys, Keys, NextAnnotation
    <2> QED BY <1>6, <2>1, <2>2, <2>3 DEF LoopInv, NextAnnotation
  <1>7. CASE UNCHANGED vars
    <2>1. Backed' /\ ing' = ing BY <1>7, OtherStep DEF Quiet
    <2> QED BY <1>7, <2>1 DEF LoopInv, PhaseKeys, Keys, vars
  <1> QED BY <1>1, <1>2, <1>3, <1>4, <1>5, <1>6, <1>7 DEF Next, Stopped

LEMMA SliceInvariant == NoSharedRoom(Ingresses) => (Spec => []SliceInv)
  <1> SUFFICES ASSUME NoSharedRoom(Ingresses) PROVE Spec => []SliceInv
    OBVIOUS
  <1>1. Init => SliceInv BY SliceInit
  <1> QED BY <1>1, SliceStep, PTL DEF Spec

LEMMA TypeFromSlices == SliceInv => TypeOK
  <1> SUFFICES ASSUME SliceInv PROVE TypeOK
    OBVIOUS
  <1>1. \A s : Free \notin Range(Lines(s))
    BY LinesType, LenProperties, ElementOfSeq, FreeAssumption DEF SliceInv, Range
  <1>2. \A s \in DOMAIN slices : /\ slices[s].array \in DOMAIN arrays
                                 /\ slices[s].len <= Len(arrays[slices[s].array])
    BY DEF SliceInv, Backed
  <1>3. Range(server) \subseteq {<<"requests", Every, 1>>, <<"timeouts", Every, 1>>}
    BY LenProperties, ElementOfSeq DEF SliceInv, LoopInv, Range
  <1> QED BY <1>1, <1>2, <1>3, PhaseNames DEF SliceInv, LoopInv, TypeOK

(* Slices lie within their arrays whatever is appended to which, and        *)
(* nothing that was not written is read, for any Ingresses in which a       *)
(* section that all services share has no room.                             *)
THEOREM TypeCorrect == NoSharedRoom(Ingresses) => (Spec => []TypeOK)
  <1> SUFFICES ASSUME NoSharedRoom(Ingresses) PROVE Spec => []TypeOK
    OBVIOUS
  <1>1. Spec => []SliceInv BY SliceInvariant
  <1> QED BY <1>1, TypeFromSlices, PTL

-----------------------------------------------------------------------------
LEMMA MoreLines ==
    ASSUME Backed, NEW s, NEW lines \in Seq(Line), Lines(s)' = Lines(s) \o lines
    PROVE  Range(Lines(s)) \cup Range(lines) = Range(Lines(s)')
  BY LinesType, RangeConcatenation

LEMMA AuthInit == Init => AuthInv
  BY DEF Init, AuthInv

(* No step takes a line from a snippet.                                     *)
LEMMA LinesStay ==
    ASSUME SliceInv, [Next]_vars, NEW t
    PROVE  Range(Lines(t)) \subseteq Range(Lines(t)')
  <1>0. ASSUME NEW s, NEW lines \in Seq(Line), Adds(s, lines)
        PROVE  Range(Lines(t)) \subseteq Range(Lines(t)')
    BY <1>0, MoreLines DEF Adds, SliceInv
  <1>1. CASE AddAuth
    <2> PICK s \in todo : IF Conflicting(s) THEN Quiet ELSE Adds(s, AuthLines(s))
      BY <1>1, AddAuthStep
    <2> PICK lines : lines = AuthLines(s) OBVIOUS
    <2>1. lines \in Seq(Line)
      BY <1>1, LineTypes DEF SliceInv, LoopInv, PhaseKeys, AddAuth
    <2> QED BY <2>1, <1>0 DEF Quiet
  <1>2. CASE AddHeaders
    <2> PICK s \in todo : Adds(s, HeaderLines(s)) BY <1>2, AddHeadersStep
    <2> PICK lines : lines = HeaderLines(s) OBVIOUS
    <2>1. lines \in Seq(Line)
      BY <1>2, LineTypes, PhaseNames DEF SliceInv, LoopInv, PhaseKeys, Keys, AddHeaders, HeaderLines
    <2> QED BY <2>1, <1>0
  <1>3. CASE KeepaliveRequests \/ NextAnnotation \/ UNCHANGED vars
    BY <1>3, OtherStep DEF Quiet
  <1>4. CASE AddKeepaliveRequests
    <2> PICK s \in inner : Adds(s, <<<<"requests", s, 1>>>>) BY <1>4, AddKeepaliveRequestsStep
    <2>1. <<<<"requests", s, 1>>>> \in Seq(Line)
      BY KeysAreNames, LineTypes DEF SliceInv, LoopInv
    <2> QED BY <2>1, <1>0
  <1>5. CASE KeepaliveTimeout
    <2> PICK s \in todo : IF s = Every THEN Quiet ELSE Adds(s, <<<<"timeouts", s, 1>>>>)
      BY <1>5, KeepaliveTimeoutStep
    <2>1. <<<<"timeouts", s, 1>>>> \in Seq(Line)
      BY <1>5, KeysAreNames, LineTypes, PhaseNames
      DEF SliceInv, LoopInv, PhaseKeys, Keys, KeepaliveTimeout
    <2> QED BY <2>1, <1>0 DEF Quiet
  <1> QED BY <1>1, <1>2, <1>3, <1>4, <1>5 DEF Next, Stopped

LEMMA AuthStep == SliceInv /\ AuthInv /\ [Next]_vars => AuthInv'
  <1> SUFFICES ASSUME SliceInv, AuthInv, [Next]_vars, ~conflict', NEW s \in (DOMAIN ing.appid)'
               PROVE  (phase = "auth" /\ s \in todo)' \/ Range(AuthLines(s)') \subseteq Range(Lines(s)')
    BY DEF AuthInv
  <1>1. ing' = ing
    BY DEF Next, AddAuth, AddHeaders, KeepaliveRequests, AddKeepaliveRequests,
           KeepaliveTimeout, NextAnnotation, Stopped, vars
  <1>2. AuthLines(s)' = AuthLines(s) BY <1>1 DEF AuthLines
  <1>3. CASE AddAuth
    <2> PICK v \in todo : /\ todo' = todo \ {v} /\ Conflicts(v)
                          /\ IF Conflicting(v) THEN Quiet ELSE Adds(v, AuthLines(v))
      BY <1>3, AddAuthStep
    <2>1. ~conflict /\ ~Conflicting(v) BY DEF Conflicts
    <2>2. CASE s = v
      <3> PICK lines : lines = AuthLines(s) OBVIOUS
      <3>1. lines \in Seq(Line)
        BY <1>3, <2>2, LineTypes DEF SliceInv, LoopInv, PhaseKeys, AddAuth
      <3> QED BY <1>2, <2>1, <2>2, <3>1, MoreLines DEF Adds, SliceInv
    <2>3. CASE s # v
      BY <1>1, <1>2, <1>3, <2>1, <2>3, LinesStay DEF AuthInv, AddAuth
    <2> QED BY <2>2, <2>3
  <1>4. CASE ~AddAuth
    <2>1. conflict' = conflict /\ (phase = "auth" /\ s \in todo => phase' = "auth" /\ s \in todo')
      BY <1>4, PhaseNames
      DEF Next, AddHeaders, KeepaliveRequests, AddKeepaliveRequests, KeepaliveTimeout,
          NextAnnotation, Stopped, vars, SliceInv, LoopInv
    <2> QED BY <1>1, <1>2, <2>1, LinesStay DEF AuthInv
  <1> QED BY <1>3, <1>4

LEMMA AuthFromInv == SliceInv /\ AuthInv => AuthHasSnippet
  BY DEF AuthInv, AuthHasSnippet

(* A location that is sent to App ID has the App ID lines, for any services, *)
(* sections and visiting orders: a conflict of any service keeps all of     *)
(* them from App ID, and no later append takes lines away.                  *)
THEOREM AuthIsComplete == NoSharedRoom(Ingresses) => (Spec => []AuthHasSnippet)
  <1> SUFFICES ASSUME NoSharedRoom(Ingresses) PROVE Spec => []AuthHasSnippet
    OBVIOUS
  <1>1. Spec => []SliceInv BY SliceInvariant
  <1> QED BY <1>1, AuthInit, AuthStep, AuthFromInv, PTL DEF Spec

-----------------------------------------------------------------------------
LEMMA OwnType ==
    ASSUME ing \in Ingresses, NEW s
    PROVE  /\ UserLines(s) \in Seq(Line)
           /\ \A p \in Phases \cup {"done"} : Own(p, s) \in Seq(Line)
  <1>1. <<>> \in Seq(Line) BY EmptySeq
  <1>2. UserLines(s) \in Seq(Line) BY <1>1, SectionType DEF UserLines
  <1>3. Own("auth", s) \in Seq(Line) BY <1>1, LineTypes DEF Own
  <1>4. \A p \in Range(HeaderPhases) : OwnHeaders(p, s) \in Seq(Line)
    BY <1>1, LineTypes DEF OwnHeaders
  <1>5. /\ OwnLine("requests", s, ing.requests) \in Seq(Line)
        /\ OwnLine("timeouts", s, ing.timeouts) \in Seq(Line)
    BY <1>1, LineTypes, KeysAreNames DEF OwnLine
  <1>6. \A p \in Phases \cup {"done"} : Own(p, s) \in Seq(Line)
    BY <1>1, <1>3, <1>4, <1>5, PhaseNames DEF Own
  <1> QED BY <1>2, <1>6

LEMMA BeforeType ==
    ASSUME ing \in Ingresses, NEW s, NEW p \in Phases \cup {"done"}
    PROVE  Before(p, s) \in Seq(Line)
  <1>1. AfterAuth(s) \in Seq(Line)
    BY OwnType, ConcatProperties, PhaseNames DEF AfterAuth
  <1>2. AfterAdd(s) \in Seq(Line)
    BY <1>1, OwnType, ConcatProperties, PhaseNames DEF AfterAdd
  <1>3. AfterResponse(s) \in Seq(Line)
    BY <1>2, OwnType, ConcatProperties, PhaseNames DEF AfterResponse
  <1>4. AfterRemove(s) \in Seq(Line)
    BY <1>3, OwnType, ConcatProperties, PhaseNames DEF AfterRemove
  <1>5. AfterRequests(s) \in Seq(Line)
    BY <1>4, OwnType, ConcatProperties, PhaseNames DEF AfterRequests
  <1>6. AfterTimeouts(s) \in Seq(Line)
    BY <1>5, OwnType, ConcatProperties, PhaseNames DEF AfterTimeouts
  <1> QED BY <1>1, <1>2, <1>3, <1>4, <1>5, <1>6, OwnType, PhaseNames DEF Before

(* What an annotation leaves is what the next one finds.                    *)
LEMMA NextBefore ==
    ASSUME NEW s, phase \in Phases
    PROVE  Before(Following(phase), s) = Before(phase, s) \o Own(phase, s)
  BY PhaseNames
  DEF Before, Following, AfterAuth, AfterAdd, AfterResponse, AfterRemove, AfterRequests,
      AfterTimeouts

(* An annotation that has no entry for s adds nothing.                      *)
LEMMA NothingOwn ==
    ASSUME NEW s, NEW p \in Phases \cup {"done"}, s \notin PhaseKeys(p)
    PROVE  Own(p, s) = <<>>
  BY PhaseNames DEF Own, PhaseKeys, Keys, OwnHeaders, OwnLine

(* Before it is visited, a service conflicts when its section has such lines. *)
LEMMA ConflictIsOwn ==
    ASSUME ing \in Ingresses, NEW s, Lines(s) = UserLines(s)
    PROVE  Conflicting(s) <=> KeepsOwnAuth(s)
  <1>1. KeepsOwnAuth(s) <=> Range(Lines(s)) \cap AuthLike # {}
    BY DEF KeepsOwnAuth, Range
  <1>2. s \notin DOMAIN slices => Range(Lines(s)) = {}
    BY EmptySeq DEF Lines, Range
  <1> QED BY <1>1, <1>2 DEF Conflicting

(* The services of rules get the section of all, or their own.              *)
LEMMA TextInit == Init => TextInv
  <1> SUFFICES ASSUME Init PROVE TextInv
    OBVIOUS
  <1>1. ASSUME NEW s \in ing.services PROVE Lines(s) = UserLines(s)
    <2>1. CASE s \in DOMAIN slices
      BY <1>1, <2>1, ParsedLines DEF Section, UserLines
    <2>2. CASE s \notin DOMAIN slices
      BY <1>1, <2>2 DEF Lines, UserLines, Init, ParsedSlices
    <2> QED BY <2>1, <2>2
  <1>2. ASSUME NEW s \in ing.services, s \notin todo \cup inner
        PROVE  UserLines(s) = UserLines(s) \o Own("auth", s)
    BY <1>2, OwnType, ConcatEmptySeq DEF Init, Own
  <1> QED BY <1>1, <1>2 DEF Init, TextInv, Before

LEMMA SameOwn ==
    ASSUME ing' = ing, NEW s, NEW p
    PROVE  Before(p, s)' = Before(p, s) /\ Own(p, s)' = Own(p, s)
  BY DEF Before, Own, AfterAuth, AfterAdd, AfterResponse, AfterRemove, AfterRequests,
         AfterTimeouts, UserLines, KeepsOwnAuth, AuthLines, OwnHeaders, OwnLine

TextOf(s) ==
    Lines(s) = IF s \in todo \cup inner THEN Before(phase, s)
               ELSE Before(phase, s) \o Own(phase, s)

(* The visit of v adds what is its own and leaves the others alone.         *)
LEMMA VisitText ==
    ASSUME SliceInv, TextInv, phase' = phase, NEW v, NEW lines, Adds(v, lines),
           v \in todo \cup inner, v \notin (todo \cup inner)', lines = Own(phase, v),
           \A t : t # v => (t \in todo \cup inner <=> t \in (todo \cup inner)')
    PROVE  \A s \in ing.services : TextOf(s)'
  <1>1. ASSUME NEW s \in ing.services, s = v PROVE TextOf(s)'
    <2>1. Lines(s)' = Before(phase, s) \o Own(phase, s) BY <1>1 DEF TextInv, Adds
    <2> QED BY <1>1, <2>1, SameOwn DEF TextOf, Adds
  <1>2. ASSUME NEW s \in ing.services, s # v PROVE TextOf(s)'
    <2>1. Lines(s)' = Lines(s) BY <1>2 DEF Adds
    <2> QED BY <1>2, <2>1, SameOwn DEF TextOf, TextInv, Adds
  <1> QED BY <1>1, <1>2

(* Nothing is added, and the same services are still to be visited.         *)
LEMMA QuietText ==
    ASSUME SliceInv, TextInv, phase' = phase, Quiet, NEW s \in ing.services,
           s \in todo \cup inner <=> s \in (todo \cup inner)'
    PROVE  TextOf(s)'
  BY SameOwn DEF TextOf, TextInv, Quiet

LEMMA TextStep == OneRequestKey(Ingresses) /\ SliceInv /\ TextInv /\ [Next]_vars => TextInv'
  <1> SUFFICES ASSUME OneRequestKey(Ingresses), SliceInv, TextInv, [Next]_vars PROVE TextInv'
    OBVIOUS
  <1>0. ASSUME \A s \in ing.services : TextOf(s)', ing' = ing,
               inner' # {} => todo' \subseteq {Every},
               DOMAIN ing.requests \ {Every} \subseteq requests'
        PROVE  TextInv'
    BY <1>0 DEF TextInv, TextOf
  <1>n. Every \notin ing.services
    BY IngressesAssumption DEF SliceInv
  <1>1. CASE AddAuth
    <2> PICK v \in todo : /\ todo' = todo \ {v}
                          /\ IF Conflicting(v) THEN Quiet ELSE Adds(v, AuthLines(v))
      BY <1>1, AddAuthStep
    <2>1. /\ phase' = phase /\ inner' = inner /\ inner = {} /\ requests' = requests
          /\ phase = "auth" /\ ing' = ing
      BY <1>1, PhaseNames DEF AddAuth, SliceInv, LoopInv
    <2>2. v \in DOMAIN ing.appid BY <2>1 DEF SliceInv, LoopInv, PhaseKeys
    <2>3. ASSUME NEW s \in ing.services PROVE TextOf(s)'
      <3>1. CASE v \notin ing.services \/ s # v
        <4>1. Lines(s)' = Lines(s) BY <3>1 DEF Quiet, Adds
        <4> QED BY <2>1, <3>1, <4>1, SameOwn DEF TextOf, TextInv
      <3>2. CASE v \in ing.services /\ s = v
        <4>1. Lines(v) = UserLines(v) BY <2>1, <3>2 DEF TextInv, Before
        <4>2. Conflicting(v) <=> KeepsOwnAuth(v) BY <4>1, ConflictIsOwn DEF SliceInv
        <4>3. Own(phase, v) = IF Conflicting(v) THEN <<>> ELSE AuthLines(v)
          BY <2>1, <2>2, <4>2 DEF Own
        <4>4. Lines(v)' = Lines(v) \o Own(phase, v)
          BY <4>1, <4>3, OwnType, ConcatEmptySeq DEF Quiet, Adds, SliceInv
        <4>5. Lines(s)' = Before(phase, s) \o Own(phase, s)
          BY <2>1, <3>2, <4>1, <4>4 DEF Before
        <4> QED BY <2>1, <3>2, <4>5, SameOwn DEF TextOf
      <3> QED BY <3>1, <3>2
    <2> QED BY <1>0, <2>1, <2>3 DEF TextInv
  <1>2. CASE AddHeaders
    <2> PICK v \in todo : todo' = todo \ {v} /\ Adds(v, HeaderLines(v))
      BY <1>2, AddHeadersStep
    <2>1. /\ phase' = phase /\ inner' = inner /\ inner = {} /\ requests' = requests
          /\ phase \in Range(HeaderPhases)
      BY <1>2, PhaseNames DEF AddHeaders, SliceInv, LoopInv
    <2>2. v \in DOMAIN ing.headers[phase]
      BY <2>1, PhaseNames DEF SliceInv, LoopInv, PhaseKeys, Keys
    <2>3. HeaderLines(v) = Own(phase, v)
      BY <2>1, <2>2, PhaseNames DEF HeaderLines, Own, OwnHeaders
    <2> PICK lines : lines = HeaderLines(v) OBVIOUS
    <2>4. \A s \in ing.services : TextOf(s)'
      BY <2>1, <2>3, VisitText
    <2> QED BY <1>0, <2>1, <2>4 DEF TextInv, Adds
  <1>3. CASE KeepaliveRequests
    <2> PICK v \in todo :
          /\ todo' = todo \ {v}
          /\ IF v = Every THEN requests' = requests \ {v} /\ inner' = {}
             ELSE inner' = requests /\ requests' = requests
      BY <1>3 DEF KeepaliveRequests, ServerWide
    <2>1. phase' = phase /\ phase = "requests" /\ inner = {} /\ Quiet
      BY <1>3, OtherStep DEF KeepaliveRequests
    <2>2. todo \subseteq DOMAIN ing.requests /\ requests \subseteq DOMAIN ing.requests
      BY <2>1, PhaseNames DEF SliceInv, LoopInv, PhaseKeys, Keys
    <2>3. v # Every => \A t \in DOMAIN ing.requests \ {Every} : t = v
      BY <2>2 DEF OneRequestKey, SliceInv
    <2>4. v # Every => v \in requests BY <2>2 DEF TextInv
    <2>5. ASSUME NEW s \in ing.services PROVE TextOf(s)'
      <3>1. s \in todo \cup inner <=> s \in (todo \cup inner)'
        BY <1>n, <2>1, <2>2, <2>3, <2>4
      <3> QED BY <2>1, <3>1, QuietText
    <2>6. inner' # {} => todo' \subseteq {Every} BY <2>2, <2>3
    <2> QED BY <1>0, <2>1, <2>5, <2>6 DEF TextInv, Quiet
  <1>4. CASE AddKeepaliveRequests
    <2> PICK v \in inner : inner' = inner \ {v} /\ Adds(v, <<<<"requests", v, 1>>>>)
      BY <1>4, AddKeepaliveRequestsStep
    <2>1. phase' = phase /\ phase = "requests" /\ todo' = todo /\ requests' = requests
      BY <1>4 DEF AddKeepaliveRequests, SliceInv, LoopInv
    <2>2. v \in DOMAIN ing.requests BY DEF SliceInv, LoopInv
    <2>3. Own(phase, v) = <<<<"requests", v, 1>>>>
      BY <2>1, <2>2 DEF Own, OwnLine
    <2>4. ASSUME NEW s \in ing.services PROVE TextOf(s)'
      <3>1. CASE v = Every
        <4>1. Lines(s)' = Lines(s) BY <1>n, <3>1 DEF Adds
        <4> QED BY <1>n, <2>1, <3>1, <4>1, SameOwn DEF TextOf, TextInv, Adds
      <3>2. CASE v # Every
        <4>1. v \notin todo BY <3>2 DEF TextInv
        <4> QED BY <2>1, <2>3, <4>1, VisitText
      <3> QED BY <3>1, <3>2
    <2> QED BY <1>0, <2>1, <2>4 DEF TextInv, Adds
  <1>5. CASE KeepaliveTimeout
    <2> PICK v \in todo :
          /\ todo' = todo \ {v}
          /\ IF v = Every THEN Quiet ELSE Adds(v, <<<<"timeouts", v, 1>>>>)
      BY <1>5, KeepaliveTimeoutStep
    <2>1. /\ phase' = phase /\ phase = "timeouts" /\ inner' = inner /\ inner = {}
          /\ requests' = requests
      BY <1>5 DEF KeepaliveTimeout, SliceInv, LoopInv
    <2>2. v \in DOMAIN ing.timeouts
      BY <2>1, PhaseNames DEF SliceInv, LoopInv, PhaseKeys, Keys
    <2>3. Own(phase, v) = <<<<"timeouts", v, 1>>>>
      BY <2>1, <2>2 DEF Own, OwnLine
    <2>4. ASSUME NEW s \in ing.services PROVE TextOf(s)'
      <3>1. CASE v = Every BY <1>n, <2>1, <3>1, QuietText
      <3>2. CASE v # Every BY <2>1, <2>3, <3>2, VisitText
      <3> QED BY <3>1, <3>2
    <2> QED BY <1>0, <2>1, <2>4 DEF TextInv, Quiet, Adds
  <1>6. CASE NextAnnotation
    <2>1. /\ phase \in Phases /\ phase' = Following(phase) /\ Quiet
          /\ todo = {} /\ inner = {} /\ inner' = {} /\ requests' = requests
      BY <1>6, OtherStep DEF NextAnnotation, SliceInv, LoopInv
    <2>2. phase' \in (Phases \cup {"done"}) \ {"auth"} BY <2>1, FollowingPhase
    <2>3. todo' = PhaseKeys(phase')
      BY <1>6, <2>1, <2>2 DEF NextAnnotation, PhaseKeys, Keys, Quiet
    <2>4. ASSUME NEW s \in ing.services PROVE TextOf(s)'
      <3>1. Lines(s)' = Before(phase', s)
        BY <2>1, NextBefore DEF TextInv, Quiet
      <3>2. s \notin todo' => Before(phase', s) \o Own(phase', s) = Before(phase', s)
        <4> SUFFICES ASSUME s \notin todo'
                     PROVE  Before(phase', s) \o Own(phase', s) = Before(phase', s)
          OBVIOUS
        <4> PICK p : p = phase' OBVIOUS
        <4>1. Own(p, s) = <<>> BY <2>2, <2>3, NothingOwn
        <4>2. Before(p, s) \in Seq(Line) BY <2>2, BeforeType DEF SliceInv
        <4> QED BY <4>1, <4>2, ConcatEmptySeq
      <3> PICK p : p = phase' OBVIOUS
      <3>3. Before(p, s)' = Before(p, s) /\ Own(p, s)' = Own(p, s)
        BY <2>1, SameOwn DEF Quiet
      <3> QED BY <2>1, <3>1, <3>2, <3>3 DEF TextOf
    <2> QED BY <1>0, <2>1, <2>4 DEF TextInv, Quiet
  <1>7. CASE UNCHANGED vars
    <2>1. \A s \in ing.services : TextOf(s)'
      BY <1>7, OtherStep, QuietText DEF vars
    <2> QED BY <1>0, <1>7, <2>1 DEF TextInv, vars
  <1> QED BY <1>1, <1>2, <1>3, <1>4, <1>5, <1>6, <1>7 DEF Next, Stopped

LEMMA OwnFromText == SliceInv /\ TextInv => SnippetIsOwn
  <1> SUFFICES ASSUME SliceInv, TextInv, phase = "done", NEW s \in ing.services
               PROVE  Lines(s) = UserLines(s)
                  \o (IF s \in DOMAIN ing.appid /\ ~KeepsOwnAuth(s) THEN AuthLines(s) ELSE <<>>)
                  \o OwnHeaders("add", s) \o OwnHeaders("response", s) \o OwnHeaders("remove", s)
                  \o OwnLine("requests", s, ing.requests) \o OwnLine("timeouts", s, ing.timeouts)
    BY DEF SnippetIsOwn
  <1>1. Own("done", s) = <<>> /\ Before("done", s) = AfterTimeouts(s)
    BY DEF Own, Before
  <1>2. AfterTimeouts(s) \in Seq(Line)
    BY <1>1, BeforeType DEF SliceInv
  <1>3. todo = {} /\ inner = {}
    BY PhaseNames DEF SliceInv, LoopInv, PhaseKeys, Keys
  <1>4. Lines(s) = AfterTimeouts(s)
    BY <1>1, <1>2, <1>3, ConcatEmptySeq DEF TextInv
  <1> QED
    BY <1>4
    DEF AfterAuth, AfterAdd, AfterResponse, AfterRemove, AfterRequests, AfterTimeouts, Own

(* The snippet of a service is the lines of the user and then its own of    *)
(* each annotation, once: for any services, sections, numbers of headers    *)
(* and visiting orders, as long as no room is shared and keepalive-requests *)
(* names one service at most.                                               *)
THEOREM SnippetsAreOwn ==
    NoSharedRoom(Ingresses) /\ OneRequestKey(Ingresses) => (Spec => []SnippetIsOwn)
  <1> SUFFICES ASSUME NoSharedRoom(Ingresses), OneRequestKey(Ingresses)
               PROVE  Spec => []SnippetIsOwn
    OBVIOUS
  <1>1. SliceInv /\ TextInv /\ [Next]_vars => TextInv' BY TextStep
  <1>2. Spec => []SliceInv BY SliceInvariant
  <1> QED BY <1>1, <1>2, TextInit, OwnFromText, PTL DEF Spec

=============================================================================
