------------------------- MODULE ProfileList_proofs -------------------------
(***************************************************************************)
(* What ProfileList promises for any ids, creation times and page sizes,   *)
(* and however much is written: a walk to the end of the list has shown    *)
(* all that was on it all the time, a walk that never turned back has      *)
(* shown no profile twice, and one that turns back is shown the page that  *)
(* it came from, if the list has not changed since.                        *)
(***************************************************************************)
EXTENDS ProfileList, FiniteSetTheorems, TLAPS

-----------------------------------------------------------------------------
(* Type correctness.                                                       *)

\* A walk that has begun is one of the records of Begun.
LEMMA WalkKinds ==
  ASSUME walk \in Walks
  PROVE  /\ walk # NotBegun => walk \in Begun
         /\ walk.pc # "new" => walk \in Begun
         /\ walk \in Begun => walk.pc # "new" /\ walk # NotBegun
<1>1. NotBegun.pc = "new"
  BY DEF NotBegun
<1>2. walk \in Begun => walk.pc # "new"
  BY DEF Begun
<1> QED
  BY <1>1, <1>2 DEF Walks

\* The steps of the walk leave the rows and the bound alone, and what it remembers in its type.
LEMMA WalkTypes ==
  ASSUME TypeOK, UNCHANGED <<rows, left>>, walk' \in Begun,
         Cardinality(walk'.page) <= walk'.size,
         seen' \subseteq Ids, steady' \subseteq Ids, before' \subseteq Ids, quiet' \in 0..2
  PROVE  TypeOK'
BY DEF TypeOK, rows, Walks

LEMMA BeginTypes ==
  ASSUME TypeOK, NEW size \in PageSizes, NEW filtered \in BOOLEAN, Begin(size, filtered)
  PROVE  TypeOK'
<1>1. walk' \in Begun
  BY DEF Begin, Begun, TypeOK, OptId
<1>2. Cardinality(walk'.page) <= walk'.size
  <2>1. walk'.page = {} /\ walk'.size = size
    BY DEF Begin
  <2>2. Cardinality({}) = 0
    BY FS_EmptySet
  <2> QED
    BY <2>1, <2>2, ListAssumption DEF ListAssumption
<1>3. steady' \subseteq Ids
  BY DEF Begin, Listed, TypeOK
<1> QED
  BY <1>1, <1>2, <1>3, WalkTypes DEF Begin, TypeOK

LEMMA FollowTypes ==
  ASSUME TypeOK, NEW dir \in {"next", "prev"}, Follow(dir)
  PROVE  TypeOK'
<1>1. walk \in Begun
  BY WalkKinds DEF Follow, TypeOK
<1>2. PICK at \in {walk.next, walk.prev} :
        walk' = [walk EXCEPT !.pc = "ask", !.came = walk.dir, !.dir = dir, !.at = at,
                             !.back = @ \/ dir = "prev", !.next = NoProfile, !.prev = NoProfile]
  BY DEF Follow
<1>3. at \in OptId /\ NoProfile \in OptId
  BY <1>1 DEF Begun, OptId
<1>4. walk.dir \in {"next", "prev"} /\ (walk.back \/ dir = "prev") \in BOOLEAN
  BY <1>1 DEF Begun
<1>5. walk' \in Begun
  BY <1>1, <1>2, <1>3, <1>4 DEF Begun
<1>6. walk'.page = walk.page /\ walk'.size = walk.size
  BY <1>1, <1>2 DEF Begun
<1> QED
  BY <1>1, <1>5, <1>6, WalkKinds, WalkTypes DEF Follow, TypeOK

LEMMA ReadTypes ==
  ASSUME TypeOK, ReadPage
  PROVE  TypeOK'
<1>1. walk \in Begun
  BY WalkKinds DEF ReadPage, TypeOK
<1>2. PICK S \in SUBSET Beyond(walk) :
        /\ Nearest(S, walk)
        /\ walk' = [walk EXCEPT !.pc = "answer", !.page = S, !.more = S # Beyond(walk)]
  BY DEF ReadPage
<1>3. S \subseteq Ids
  BY DEF Beyond, Listed, TypeOK
<1>4. walk' \in Begun /\ walk'.page = S /\ walk'.size = walk.size
  BY <1>1, <1>2, <1>3 DEF Begun
<1>5. Cardinality(S) <= walk.size
  BY <1>2 DEF Nearest
<1>6. before' \subseteq Ids /\ quiet' \in 0..2
  BY <1>1 DEF ReadPage, Begun, TypeOK
<1> QED
  BY <1>4, <1>5, <1>6, WalkTypes DEF ReadPage, TypeOK

LEMMA AnswerTypes ==
  ASSUME TypeOK, Answer
  PROVE  TypeOK'
<1>1. walk \in Begun
  BY WalkKinds DEF Answer, TypeOK
<1>2. PICK next, prev \in OptId :
        walk' = [walk EXCEPT !.pc = "shown", !.next = next, !.prev = prev]
  <2>1. CASE walk.page = {}
    BY <2>1 DEF Answer, OptId
  <2>2. CASE walk.page # {}
    <3>1. PICK first, last \in walk.page :
            walk' = [walk EXCEPT !.pc = "shown", !.next = NextCursor(walk, last),
                                 !.prev = PrevCursor(walk, first)]
      BY <2>2 DEF Answer
    <3>2. NextCursor(walk, last) \in OptId /\ PrevCursor(walk, first) \in OptId
      BY <1>1 DEF Begun, NextCursor, PrevCursor, OptId
    <3> QED
      BY <3>1, <3>2
  <2> QED
    BY <2>1, <2>2
<1>3. walk' \in Begun /\ walk'.page = walk.page /\ walk'.size = walk.size
  BY <1>1, <1>2 DEF Begun
<1>4. seen' \subseteq Ids
  BY <1>1 DEF Answer, Begun, TypeOK
<1> QED
  BY <1>1, <1>3, <1>4, WalkKinds, WalkTypes DEF Answer, TypeOK

LEMMA ListFailsTypes ==
  ASSUME TypeOK, ListFails
  PROVE  TypeOK'
<1>1. walk \in Begun
  BY WalkKinds DEF ListFails, TypeOK
<1>2. walk' \in Begun /\ walk'.page = {} /\ walk'.size = walk.size
  BY <1>1 DEF ListFails, Begun
<1>3. Cardinality({}) <= walk.size
  <2>1. Cardinality({}) = 0
    BY FS_EmptySet
  <2>2. walk.size \in Nat
    BY <1>1, ListAssumption DEF ListAssumption, Begun
  <2> QED
    BY <2>1, <2>2
<1> QED
  BY <1>2, <1>3, WalkTypes DEF ListFails, TypeOK

\* Whatever is written is no more than rows to the walk.
LEMMA NoticeTypes ==
  ASSUME TypeOK, Notice, left' \in 0..Writes, there' \subseteq Ids, time' \in [Ids -> Times],
         root' \in [Ids -> OptId], match' \subseteq Ids,
         job' \in [master : Masters \cup {NoProfile}, kids : SUBSET Ids]
  PROVE  TypeOK'
BY DEF TypeOK, Notice

LEMMA CountedTypes ==
  ASSUME TypeOK, Counted
  PROVE  left' \in 0..Writes
BY ListAssumption DEF Counted, TypeOK, ListAssumption

LEMMA WriteTypes ==
  ASSUME TypeOK, Write
  PROVE  TypeOK'
<1>1. ASSUME NEW p \in Profiles, Create(p) PROVE TypeOK'
  <2>1. there' \subseteq Ids /\ root' \in [Ids -> OptId]
    BY <1>1 DEF Create, TypeOK, Ids, OptId
  <2> QED
    BY <1>1, <2>1, CountedTypes, NoticeTypes DEF Create, TypeOK
<1>2. ASSUME NEW p \in Ids, Delete(p) PROVE TypeOK'
  <2>1. there' \subseteq Ids
    BY <1>2 DEF Delete, TypeOK
  <2> QED
    BY <1>2, <2>1, CountedTypes, NoticeTypes DEF Delete, TypeOK
<1>3. ASSUME NEW p \in Changing, Change(p) PROVE TypeOK'
  <2>1. match' \subseteq Ids
    BY <1>3, ListAssumption DEF Change, TypeOK, ListAssumption
  <2> QED
    BY <1>3, <2>1, CountedTypes, NoticeTypes DEF Change, TypeOK
<1>4. ASSUME NEW p \in Ids, NEW q \in Ids, Merge(p, q) PROVE TypeOK'
  <2>1. root' \in [Ids -> OptId]
    BY <1>4 DEF Merge, Under, TypeOK, OptId
  <2> QED
    BY <1>4, <2>1, CountedTypes, NoticeTypes DEF Merge, TypeOK
<1>5. ASSUME NEW p \in Ids, NEW q \in Ids, NEW m \in Masters, InsertMaster(p, q, m) PROVE TypeOK'
  <2>1. m \in Ids
    BY DEF Ids
  <2>2. there' \subseteq Ids /\ time' \in [Ids -> Times] /\ root' \in [Ids -> OptId]
    BY <1>5, <2>1 DEF InsertMaster, TypeOK, OptId
  <2>3. job' \in [master : Masters \cup {NoProfile}, kids : SUBSET Ids]
    BY <1>5 DEF InsertMaster
  <2> QED
    BY <1>5, <2>2, <2>3, CountedTypes, NoticeTypes DEF InsertMaster, TypeOK
<1>6. ASSUME NoJob \in [master : Masters \cup {NoProfile}, kids : SUBSET Ids], Attach PROVE TypeOK'
  <2>1. root' \in [Ids -> OptId]
    BY <1>6 DEF Attach, Under, TypeOK, OptId, Ids
  <2> QED
    BY <1>6, <2>1, NoticeTypes DEF Attach, TypeOK
<1>7. ASSUME NoJob \in [master : Masters \cup {NoProfile}, kids : SUBSET Ids], MergeFails PROVE TypeOK'
  BY <1>7, NoticeTypes DEF MergeFails, TypeOK
<1>8. NoJob \in [master : Masters \cup {NoProfile}, kids : SUBSET Ids]
  BY DEF NoJob
<1> QED
  BY <1>1, <1>2, <1>3, <1>4, <1>5, <1>6, <1>7, <1>8 DEF Write

LEMMA TypesInit == Init => TypeOK
<1> SUFFICES ASSUME Init PROVE TypeOK
  OBVIOUS
<1>1. there \subseteq Ids /\ root \in [Ids -> OptId]
  BY ListAssumption DEF Init, ListAssumption, Ids, OptId
<1>2. time \in [Ids -> Times]
  <2>1. (CHOOSE t \in Times : TRUE) \in Times
    BY ListAssumption DEF ListAssumption
  <2>2. PICK created \in [Profiles -> Times] :
          time = [p \in Ids |-> IF p \in Profiles THEN created[p] ELSE CHOOSE t \in Times : TRUE]
    BY DEF Init
  <2> QED
    BY <2>1, <2>2
<1>3. job \in [master : Masters \cup {NoProfile}, kids : SUBSET Ids]
  BY DEF Init, NoJob
<1>4. walk \in Walks /\ walk.pc = "new"
  BY DEF Init, NotBegun, Walks
<1> QED
  BY <1>1, <1>2, <1>3, <1>4, ListAssumption DEF Init, TypeOK, ListAssumption

LEMMA TypesNext == TypeOK /\ [Next]_vars => TypeOK'
<1> SUFFICES ASSUME TypeOK, [Next]_vars PROVE TypeOK'
  OBVIOUS
<1>1. CASE Walk
  BY <1>1, BeginTypes, FollowTypes, ReadTypes, AnswerTypes, ListFailsTypes DEF Walk
<1>2. CASE Write
  BY <1>2, WriteTypes
<1>3. CASE UNCHANGED vars
  BY <1>3 DEF TypeOK, vars, rows
<1> QED
  BY <1>1, <1>2, <1>3 DEF Next

\* Every variable keeps its type, and no page is longer than page_size: the row that the query
\* reads ahead is cut off (profile_store.go, GetAllProfiles).
THEOREM TypeCorrect == Spec => []TypeOK
BY TypesInit, TypesNext, PTL DEF Spec

-----------------------------------------------------------------------------
(* The order of the list.                                                  *)

\* Ids that were given to a profile: only they are ever on a page or in a cursor, and what is
\* known of their creation times stays.
Known == {p \in Ids : root[p] # NoProfile}

LEMMA Order ==
  ASSUME TypeOK
  PROVE  /\ \A p, q \in Ids : p # q => Newer(p, q) \/ Newer(q, p)
         /\ \A p, q \in Ids : ~(Newer(p, q) /\ Newer(q, p))
         /\ \A p, q, r \in Ids : Newer(p, q) /\ Newer(q, r) => Newer(p, r)
<1>1. \A p \in Ids : p \in Nat /\ time[p] \in Nat
  BY ListAssumption DEF ListAssumption, TypeOK
<1> QED
  BY <1>1 DEF Newer

\* A walk's place in the list: its page, its cursors and what it has seen are profiles that
\* were created, and what it must not miss is on the list.
Placed ==
  /\ there \subseteq Known
  /\ seen \subseteq Known
  /\ job # NoJob => job.master \in Ids
  /\ walk = NotBegun => seen = {}
  /\ walk # NotBegun =>
       /\ steady \subseteq Listed(walk.filtered)
       /\ walk.page \subseteq Known
       /\ {walk.at, walk.next, walk.prev} \subseteq Known \cup {NoProfile}
       /\ {walk.next, walk.prev} \subseteq walk.page \cup {NoProfile}
       /\ walk.pc # "shown" => walk.next = NoProfile /\ walk.prev = NoProfile
       /\ walk.dir = "prev" => walk.at # NoProfile

\* What every write does to the list: no id is given twice, and no creation time changes.
KnownStays ==
  /\ Notice
  /\ Known \subseteq Known'
  /\ \A p \in Known : time'[p] = time[p]
  /\ there' \subseteq Known'
  /\ job' # NoJob => job'.master \in Ids

LEMMA WritesKeepKnown ==
  ASSUME TypeOK, Placed, Write
  PROVE  KnownStays
<1>1. NoProfile \notin Ids
  BY ListAssumption DEF ListAssumption
<1>2. Known \subseteq Ids /\ there \subseteq Known
  BY DEF Known, Placed
<1>3. ASSUME NEW p \in Profiles, Create(p) PROVE KnownStays
  <2>1. Known' = Known \cup {p}
    BY <1>1, <1>3 DEF Create, Known, TypeOK, Ids
  <2> QED
    BY <1>2, <1>3, <2>1 DEF Create, KnownStays, Placed
<1>4. ASSUME NEW p \in Ids, Delete(p) PROVE KnownStays
  <2>1. Known' = Known /\ there' \subseteq there
    BY <1>4 DEF Delete, Known
  <2> QED
    BY <1>2, <1>4, <2>1 DEF Delete, KnownStays, Placed
<1>5. ASSUME NEW p \in Changing, Change(p) PROVE KnownStays
  <2>1. Known' = Known
    BY <1>5 DEF Change, Known
  <2> QED
    BY <1>2, <1>5, <2>1 DEF Change, KnownStays, Placed
<1>6. ASSUME NEW p \in Ids, NEW q \in Ids, Merge(p, q) PROVE KnownStays
  <2>1. Known \subseteq Known'
    BY <1>1, <1>6 DEF Merge, Under, Known, TypeOK
  <2> QED
    BY <1>2, <1>6, <2>1 DEF Merge, KnownStays, Placed
<1>7. ASSUME NEW p \in Ids, NEW q \in Ids, NEW m \in Masters, InsertMaster(p, q, m)
      PROVE  KnownStays
  <2>1. m \in Ids \ Known
    BY <1>7 DEF InsertMaster, Known, Ids
  <2>2. Known' = Known \cup {m}
    BY <1>1, <1>7, <2>1 DEF InsertMaster, Known, TypeOK
  <2>3. \A k \in Known : time'[k] = time[k]
    BY <1>2, <1>7, <2>1 DEF InsertMaster, TypeOK
  <2>4. there' \subseteq Known' /\ job'.master \in Ids
    BY <1>2, <1>7, <2>1, <2>2 DEF InsertMaster
  <2> QED
    BY <1>7, <2>2, <2>3, <2>4 DEF InsertMaster, KnownStays
<1>8. CASE Attach
  <2>1. job.master \in Ids
    BY <1>8 DEF Attach, Placed
  <2>2. Known \subseteq Known'
    BY <1>1, <1>8, <2>1 DEF Attach, Under, Known, TypeOK
  <2> QED
    BY <1>2, <1>8, <2>2 DEF Attach, KnownStays
<1>9. CASE MergeFails
  <2>1. Known' = Known
    BY <1>9 DEF MergeFails, Known
  <2> QED
    BY <1>2, <1>9, <2>1 DEF MergeFails, KnownStays
<1> QED
  BY <1>3, <1>4, <1>5, <1>6, <1>7, <1>8, <1>9 DEF Write

\* So the order of the ids that were given stays.
LEMMA OrderStays ==
  ASSUME KnownStays, NEW p \in Known, NEW q \in Known
  PROVE  Newer(p, q)' <=> Newer(p, q)
BY DEF KnownStays, Newer

LEMMA PlacedWrite ==
  ASSUME TypeOK, Placed, Write
  PROVE  Placed'
<1>1. KnownStays
  BY WritesKeepKnown
<1>2. walk # NotBegun /\ walk' = walk /\ seen' = seen
  BY <1>1 DEF KnownStays, Notice
<1>3. steady' \subseteq Listed(walk.filtered)'
  BY <1>1 DEF KnownStays, Notice
<1> QED
  BY <1>1, <1>2, <1>3 DEF KnownStays, Placed

LEMMA PlacedInit == Init => Placed
<1> SUFFICES ASSUME Init PROVE Placed
  OBVIOUS
<1>1. NoProfile \notin Ids /\ Existing \subseteq Ids
  BY ListAssumption DEF ListAssumption, Ids
<1>2. there \subseteq Known
  BY <1>1 DEF Init, Known
<1> QED
  BY <1>2 DEF Init, Placed

LEMMA ListedIsKnown ==
  ASSUME Placed, NEW filtered
  PROVE  Listed(filtered) \subseteq Known
BY DEF Placed, Listed

\* A step of the walk that leads to a place of the list.
LEMMA PlacedStep ==
  ASSUME TypeOK, Placed, UNCHANGED rows, walk' # NotBegun,
         steady' \subseteq Listed(walk.filtered)', seen' \subseteq Known,
         walk'.page \subseteq Known,
         {walk'.at, walk'.next, walk'.prev} \subseteq Known \cup {NoProfile},
         {walk'.next, walk'.prev} \subseteq walk'.page \cup {NoProfile},
         walk'.pc # "shown" => walk'.next = NoProfile /\ walk'.prev = NoProfile,
         walk'.dir = "prev" => walk'.at # NoProfile
  PROVE  Placed'
<1>1. Known' = Known /\ there' = there /\ job' = job
  BY DEF rows, Known
<1> QED
  BY <1>1 DEF Placed

\* The list stays the same between the steps of a walk, but what was asked for stays the same.
LEMMA ListedStays ==
  ASSUME UNCHANGED rows, walk'.filtered = walk.filtered
  PROVE  Listed(walk.filtered)' = Listed(walk.filtered)
BY DEF Listed, rows

LEMMA PlacedBegin ==
  ASSUME TypeOK, Placed, NEW size \in PageSizes, NEW filtered \in BOOLEAN, Begin(size, filtered)
  PROVE  Placed'
<1>1. walk' # NotBegun /\ walk'.filtered = filtered /\ walk'.page = {} /\ walk'.dir = "next"
      /\ {walk'.at, walk'.next, walk'.prev} = {NoProfile}
  BY DEF Begin, NotBegun
<1>2. steady' \subseteq Listed(walk.filtered)'
  BY <1>1 DEF Begin, Listed, rows
<1>3. seen' \subseteq Known
  BY DEF Begin, Placed
<1>4. UNCHANGED rows
  BY DEF Begin
<1> QED
  BY <1>1, <1>2, <1>3, <1>4, PlacedStep

\* The steps after the first.
LEMMA PlacedLater ==
  ASSUME TypeOK, Placed, walk.pc # "new", UNCHANGED <<rows, steady>>,
         walk' \in Begun, walk'.filtered = walk.filtered, seen' \subseteq Known,
         walk'.page \subseteq Known,
         {walk'.at, walk'.next, walk'.prev} \subseteq Known \cup {NoProfile},
         {walk'.next, walk'.prev} \subseteq walk'.page \cup {NoProfile},
         walk'.pc # "shown" => walk'.next = NoProfile /\ walk'.prev = NoProfile,
         walk'.dir = "prev" => walk'.at # NoProfile
  PROVE  Placed'
<1>1. walk # NotBegun /\ walk' # NotBegun
  BY DEF Begun, NotBegun
<1>2. Listed(walk.filtered)' = Listed(walk.filtered)
  BY ListedStays
<1>3. steady' \subseteq Listed(walk.filtered)'
  BY <1>1, <1>2 DEF Placed
<1> QED
  BY <1>1, <1>3, PlacedStep

LEMMA PlacedWalk ==
  ASSUME TypeOK, Placed, Walk
  PROVE  Placed'
<1>1. walk.pc # "new" => walk \in Begun /\ walk # NotBegun
  BY WalkKinds DEF TypeOK
<1>2. ASSUME NEW dir \in {"next", "prev"}, Follow(dir) PROVE Placed'
  <2>1. walk \in Begun /\ walk # NotBegun
    BY <1>1, <1>2 DEF Follow
  <2>2. PICK at \in {walk.next, walk.prev} :
          /\ at # NoProfile
          /\ walk' = [walk EXCEPT !.pc = "ask", !.came = walk.dir, !.dir = dir, !.at = at,
                                  !.back = @ \/ dir = "prev", !.next = NoProfile,
                                  !.prev = NoProfile]
    BY <1>2 DEF Follow
  <2>3. /\ walk' \in Begun
        /\ walk'.filtered = walk.filtered /\ walk'.page = walk.page
        /\ walk'.at = at /\ walk'.next = NoProfile /\ walk'.prev = NoProfile
    <3>1. walk' \in Begun
      <4>1. at \in OptId /\ NoProfile \in OptId
        BY <2>1 DEF Begun, OptId
      <4>2. walk.dir \in {"next", "prev"} /\ (walk.back \/ dir = "prev") \in BOOLEAN
        BY <2>1 DEF Begun
      <4> QED
        BY <2>1, <2>2, <4>1, <4>2 DEF Begun
    <3> QED
      BY <2>1, <2>2, <3>1 DEF Begun
  <2>4. walk.page \subseteq Known /\ {walk.next, walk.prev} \subseteq Known \cup {NoProfile}
        /\ seen \subseteq Known
    BY <2>1 DEF Placed
  <2> QED
    BY <1>2, <2>2, <2>3, <2>4, PlacedLater DEF Follow
<1>3. CASE ReadPage
  <2>1. walk \in Begun /\ walk # NotBegun
    BY <1>1, <1>3 DEF ReadPage
  <2>2. PICK S \in SUBSET Beyond(walk) :
          walk' = [walk EXCEPT !.pc = "answer", !.page = S, !.more = S # Beyond(walk)]
    BY <1>3 DEF ReadPage
  <2>3. S \subseteq Known
    BY ListedIsKnown DEF Beyond
  <2>4. walk' \in Begun /\ walk'.filtered = walk.filtered /\ walk'.page = S
        /\ walk'.at = walk.at /\ walk'.next = walk.next /\ walk'.prev = walk.prev
        /\ walk'.dir = walk.dir
    BY <2>1, <2>2, <2>3 DEF Begun, Known
  <2>5. walk.next = NoProfile /\ walk.prev = NoProfile
    BY <1>3, <2>1 DEF Placed, ReadPage
  <2> QED
    BY <1>3, <2>1, <2>3, <2>4, <2>5, PlacedLater DEF ReadPage, Placed
<1>4. CASE Answer
  <2>1. walk \in Begun /\ walk # NotBegun
    BY <1>1, <1>4 DEF Answer
  <2>2. PICK next, prev \in walk.page \cup {NoProfile} :
          walk' = [walk EXCEPT !.pc = "shown", !.next = next, !.prev = prev]
    BY <1>4 DEF Answer, NextCursor, PrevCursor
  <2>3. walk.page \subseteq Known /\ walk.at \in Known \cup {NoProfile} /\ seen \subseteq Known
        /\ (walk.dir = "prev" => walk.at # NoProfile)
    BY <2>1 DEF Placed
  <2>4. /\ walk' \in Begun
        /\ walk'.filtered = walk.filtered /\ walk'.page = walk.page
        /\ walk'.at = walk.at /\ walk'.next = next /\ walk'.prev = prev
        /\ walk'.dir = walk.dir /\ walk'.pc = "shown"
    <3>1. next \in OptId /\ prev \in OptId
      BY <2>2, <2>3 DEF Known, OptId
    <3>2. walk' \in Begun
      BY <2>1, <2>2, <3>1 DEF Begun
    <3> QED
      BY <2>1, <2>2, <3>2 DEF Begun
  <2>5. seen' \subseteq Known
    BY <1>4, <2>3 DEF Answer
  <2>6. UNCHANGED <<rows, steady>> /\ walk.pc # "new"
    BY <1>4 DEF Answer
  <2>7. {walk'.at, walk'.next, walk'.prev} \subseteq Known \cup {NoProfile}
    BY <2>2, <2>3, <2>4
  <2>8. {walk'.next, walk'.prev} \subseteq walk'.page \cup {NoProfile}
    BY <2>2, <2>4
  <2>9. walk'.page \subseteq Known /\ (walk'.dir = "prev" => walk'.at # NoProfile)
    BY <2>3, <2>4
  <2> QED
    BY <2>4, <2>5, <2>6, <2>7, <2>8, <2>9, PlacedLater
<1>5. CASE ListFails
  <2>1. walk \in Begun /\ walk # NotBegun
    BY <1>1, <1>5 DEF ListFails
  <2>2. walk' \in Begun /\ walk'.filtered = walk.filtered /\ walk'.page = {}
        /\ walk'.at = walk.at /\ walk'.next = walk.next /\ walk'.prev = walk.prev
        /\ walk'.dir = walk.dir
    BY <1>5, <2>1 DEF ListFails, Begun
  <2>3. walk.next = NoProfile /\ walk.prev = NoProfile
    BY <1>5, <2>1 DEF Placed, ListFails
  <2> QED
    BY <1>5, <2>1, <2>2, <2>3, PlacedLater DEF ListFails, Placed
<1> QED
  BY <1>2, <1>3, <1>4, <1>5, PlacedBegin DEF Walk

-----------------------------------------------------------------------------
(* A walk to the end shows all that was on the list all the time.          *)

\* What the walk must still show is older than its cursor, or on the page, or older than all
\* of it, and there is none once an older page was asked for and there was no more to read.
Owed == steady \ seen

OwedIsOlder ==
  walk # NotBegun =>
    /\ walk.pc # "shown" /\ walk.at # NoProfile => \A p \in Owed : Newer(walk.at, p)
    /\ walk.pc # "ask" => \A p \in Owed \ walk.page, q \in walk.page : Newer(q, p)
    /\ walk.pc # "ask" /\ walk.dir = "next" /\ ~walk.more => Owed \subseteq walk.page
    /\ walk.pc = "shown" => Owed \cap walk.page = {}

EveryInv == TypeOK /\ Placed /\ OwedIsOlder

LEMMA OwedWrite ==
  ASSUME EveryInv, Write
  PROVE  OwedIsOlder'
<1>1. KnownStays
  BY WritesKeepKnown DEF EveryInv
<1>2. walk # NotBegun /\ walk' = walk /\ Owed' \subseteq Owed
  BY <1>1 DEF KnownStays, Notice, Owed
<1>3. Owed \subseteq Known /\ walk.page \subseteq Known /\ walk.at \in Known \cup {NoProfile}
  BY <1>2, ListedIsKnown DEF EveryInv, Placed, Owed
<1>4. walk.pc # "shown" /\ walk.at # NoProfile => \A p \in Owed' : Newer(walk.at, p)'
  BY <1>1, <1>2, <1>3, OrderStays DEF EveryInv, OwedIsOlder
<1>5. walk.pc # "ask" => \A p \in Owed' \ walk.page, q \in walk.page : Newer(q, p)'
  BY <1>1, <1>2, <1>3, OrderStays DEF EveryInv, OwedIsOlder
<1> QED
  BY <1>2, <1>4, <1>5 DEF EveryInv, OwedIsOlder

\* Between the steps of a walk the order stays.
LEMMA OrderOfWalk ==
  ASSUME UNCHANGED rows, NEW p, NEW q
  PROVE  Newer(p, q)' <=> Newer(p, q)
BY DEF Newer, rows

\* What is owed lies on the far side of the cursor from a page of newer profiles, and is read
\* or older than all that is read on a page of older ones.
LEMMA ReadIsNewer ==
  ASSUME EveryInv, walk.pc = "ask", NEW S \in SUBSET Beyond(walk), Nearest(S, walk)
  PROVE  /\ \A p \in Owed \ S, q \in S : Newer(q, p)
         /\ walk.dir = "next" /\ S = Beyond(walk) => Owed \subseteq S
<1>1. walk \in Begun /\ walk # NotBegun
  BY WalkKinds DEF EveryInv, TypeOK
<1>2. Owed \subseteq Listed(walk.filtered) /\ Owed \subseteq Ids /\ S \subseteq Ids
  BY <1>1 DEF EveryInv, Placed, Owed, TypeOK, Beyond, Listed
<1>3. walk.at # NoProfile => walk.at \in Ids /\ \A p \in Owed : Newer(walk.at, p)
  BY <1>1 DEF EveryInv, OwedIsOlder, Begun, OptId
<1>4. CASE walk.dir = "next"
  <2>1. Owed \subseteq Beyond(walk)
    BY <1>2, <1>3, <1>4 DEF Beyond, Toward
  <2> QED
    BY <1>4, <2>1 DEF Nearest, Toward
<1>5. CASE walk.dir = "prev"
  <2>1. walk.at # NoProfile
    BY <1>1, <1>5 DEF EveryInv, Placed
  <2>2. \A q \in S : Newer(q, walk.at)
    BY <1>5, <2>1 DEF Beyond, Toward
  <2> QED
    BY <1>2, <1>3, <1>5, <2>1, <2>2, Order DEF EveryInv
<1> QED
  BY <1>1, <1>4, <1>5 DEF Begun

LEMMA OwedWalk ==
  ASSUME EveryInv, Walk
  PROVE  OwedIsOlder'
<1>1. walk.pc # "new" => walk \in Begun /\ walk # NotBegun
  BY WalkKinds DEF EveryInv, TypeOK
<1>2. UNCHANGED rows
  BY DEF Walk, Begin, Follow, ReadPage, Answer, ListFails
<1>3. ASSUME NEW size \in PageSizes, NEW filtered \in BOOLEAN, Begin(size, filtered)
      PROVE  OwedIsOlder'
  BY <1>3 DEF Begin, OwedIsOlder
<1>4. ASSUME NEW dir \in {"next", "prev"}, Follow(dir) PROVE OwedIsOlder'
  <2>1. walk \in Begun /\ walk # NotBegun /\ walk.pc = "shown"
    BY <1>1, <1>4 DEF Follow
  <2>2. PICK at \in walk.page :
          walk' = [walk EXCEPT !.pc = "ask", !.came = walk.dir, !.dir = dir, !.at = at,
                               !.back = @ \/ dir = "prev", !.next = NoProfile,
                               !.prev = NoProfile]
    BY <1>4, <2>1 DEF Follow, EveryInv, Placed
  <2>3. walk'.pc = "ask" /\ walk'.at = at
    BY <2>1, <2>2 DEF Begun
  <2>4. Owed' = Owed /\ \A p \in Owed : Newer(at, p)
    BY <1>4, <2>1 DEF Follow, Owed, EveryInv, OwedIsOlder
  <2>5. \A p \in Owed' : Newer(walk.at, p)'
    BY <1>2, <2>3, <2>4 DEF Newer, rows
  <2> QED
    BY <2>3, <2>5 DEF OwedIsOlder
<1>5. CASE ReadPage
  <2>1. walk \in Begun /\ walk # NotBegun /\ walk.pc = "ask"
    BY <1>1, <1>5 DEF ReadPage
  <2>2. PICK S \in SUBSET Beyond(walk) :
          /\ Nearest(S, walk)
          /\ walk' = [walk EXCEPT !.pc = "answer", !.page = S, !.more = S # Beyond(walk)]
    BY <1>5 DEF ReadPage
  <2>3. walk'.pc = "answer" /\ walk'.at = walk.at /\ walk'.dir = walk.dir /\ walk'.page = S
        /\ walk'.more = (S # Beyond(walk)) /\ Owed' = Owed
    BY <1>5, <2>1, <2>2 DEF Begun, ReadPage, Owed
  <2>4. walk.at # NoProfile => \A p \in Owed' : Newer(walk.at, p)'
    BY <1>2, <2>1, <2>3 DEF EveryInv, OwedIsOlder, Newer, rows
  <2>5. \A p \in Owed' \ walk'.page, q \in walk'.page : Newer(q, p)'
    BY <1>2, <2>1, <2>2, <2>3, ReadIsNewer, OrderOfWalk
  <2>6. walk'.dir = "next" /\ ~walk'.more => Owed' \subseteq walk'.page
    BY <2>1, <2>2, <2>3, ReadIsNewer
  <2> QED
    BY <2>3, <2>4, <2>5, <2>6 DEF OwedIsOlder
<1>6. CASE Answer
  <2>1. walk \in Begun /\ walk # NotBegun /\ walk.pc = "answer"
    BY <1>1, <1>6 DEF Answer
  <2>2. PICK next, prev \in walk.page \cup {NoProfile} :
          walk' = [walk EXCEPT !.pc = "shown", !.next = next, !.prev = prev]
    BY <1>6 DEF Answer, NextCursor, PrevCursor
  <2>3. walk'.pc = "shown" /\ walk'.dir = walk.dir /\ walk'.page = walk.page
        /\ walk'.more = walk.more /\ Owed' = Owed \ walk.page
    BY <1>6, <2>1, <2>2 DEF Begun, Answer, Owed
  <2>4. \A p \in Owed' \ walk'.page, q \in walk'.page : Newer(q, p)'
    BY <1>2, <2>1, <2>3, OrderOfWalk DEF EveryInv, OwedIsOlder
  <2> QED
    BY <2>1, <2>3, <2>4 DEF EveryInv, OwedIsOlder
<1>7. CASE ListFails
  <2>1. walk \in Begun /\ walk # NotBegun /\ walk.pc = "answer"
    BY <1>1, <1>7 DEF ListFails
  <2>2. walk'.pc = "ask" /\ walk'.at = walk.at /\ Owed' = Owed
    BY <1>7, <2>1 DEF ListFails, Begun, Owed
  <2>3. walk.at # NoProfile => \A p \in Owed' : Newer(walk.at, p)'
    BY <1>2, <2>1, <2>2 DEF EveryInv, OwedIsOlder, Newer, rows
  <2> QED
    BY <2>2, <2>3 DEF OwedIsOlder
<1> QED
  BY <1>3, <1>4, <1>5, <1>6, <1>7 DEF Walk

LEMMA EveryInit == Init => EveryInv
BY TypesInit, PlacedInit DEF Init, EveryInv, OwedIsOlder

LEMMA EveryNext == EveryInv /\ [Next]_vars => EveryInv'
<1> SUFFICES ASSUME EveryInv, [Next]_vars PROVE EveryInv'
  OBVIOUS
<1>1. TypeOK'
  BY TypesNext DEF EveryInv
<1>2. CASE Walk
  BY <1>1, <1>2, PlacedWalk, OwedWalk DEF EveryInv
<1>3. CASE Write
  BY <1>1, <1>3, PlacedWrite, OwedWrite DEF EveryInv
<1>4. CASE UNCHANGED vars
  BY <1>1, <1>4 DEF EveryInv, Placed, OwedIsOlder, Owed, Known, Listed, Newer, vars, rows
<1> QED
  BY <1>2, <1>3, <1>4 DEF Next

\* At its end a walk has shown every profile that was on the list all the time, whatever was
\* written meanwhile and however often the client turned (profile_handler.go, GetAllProfiles).
THEOREM EverySafety == Spec => []VisitsEvery
<1>1. EveryInv => VisitsEvery
  <2> SUFFICES ASSUME EveryInv, AtEnd PROVE Owed = {}
    BY DEF VisitsEvery, Owed
  <2>1. walk # NotBegun
    BY DEF AtEnd, NotBegun
  <2> QED
    BY <2>1 DEF EveryInv, OwedIsOlder, AtEnd
<1> QED
  BY <1>1, EveryInit, EveryNext, PTL DEF Spec

-----------------------------------------------------------------------------
(* A walk that never turned back shows nothing twice.                      *)

\* What it has seen is the profile of its cursor and newer ones.
SeenIsNewer ==
  walk # NotBegun /\ ~walk.back =>
    /\ walk.dir = "next"
    /\ walk.pc # "shown" =>
         \A q \in seen : walk.at # NoProfile /\ (q = walk.at \/ Newer(q, walk.at))
    /\ walk.pc = "shown" /\ walk.next # NoProfile =>
         \A q \in seen : q = walk.next \/ Newer(q, walk.next)
    /\ walk.pc = "answer" /\ walk.at # NoProfile => \A q \in walk.page : Newer(walk.at, q)

OnceInv == TypeOK /\ Placed /\ SeenIsNewer

LEMMA SeenWrite ==
  ASSUME OnceInv, Write
  PROVE  SeenIsNewer'
<1>1. KnownStays
  BY WritesKeepKnown DEF OnceInv
<1>2. walk # NotBegun /\ walk' = walk /\ seen' = seen
  BY <1>1 DEF KnownStays, Notice
<1>3. seen \subseteq Known /\ walk.page \subseteq Known
      /\ {walk.at, walk.next} \subseteq Known \cup {NoProfile}
  BY <1>2 DEF OnceInv, Placed
<1>4. walk.at # NoProfile =>
        /\ \A q \in seen : Newer(q, walk.at)' <=> Newer(q, walk.at)
        /\ \A q \in walk.page : Newer(walk.at, q)' <=> Newer(walk.at, q)
  BY <1>1, <1>2, <1>3, OrderStays
<1>5. walk.next # NoProfile => \A q \in seen : Newer(q, walk.next)' <=> Newer(q, walk.next)
  BY <1>1, <1>2, <1>3, OrderStays
<1> QED
  BY <1>2, <1>4, <1>5 DEF OnceInv, SeenIsNewer

LEMMA SeenWalk ==
  ASSUME OnceInv, Walk
  PROVE  SeenIsNewer'
<1>1. walk.pc # "new" => walk \in Begun /\ walk # NotBegun
  BY WalkKinds DEF OnceInv, TypeOK
<1>2. UNCHANGED rows
  BY DEF Walk, Begin, Follow, ReadPage, Answer, ListFails
<1>3. ASSUME NEW size \in PageSizes, NEW filtered \in BOOLEAN, Begin(size, filtered)
      PROVE  SeenIsNewer'
  BY <1>3 DEF Begin, OnceInv, Placed, SeenIsNewer
<1>4. ASSUME NEW dir \in {"next", "prev"}, Follow(dir) PROVE SeenIsNewer'
  <2>1. walk \in Begun /\ walk # NotBegun /\ walk.pc = "shown"
    BY <1>1, <1>4 DEF Follow
  <2>2. walk'.pc = "ask" /\ walk'.dir = dir /\ (walk'.back <=> walk.back \/ dir = "prev")
    BY <1>4, <2>1 DEF Follow, Begun
  <2>3. CASE dir = "next"
    <3>1. walk'.at = walk.next /\ walk.next # NoProfile /\ seen' = seen
      BY <1>4, <2>1, <2>3 DEF Follow, Begun
    <3>2. ~walk.back => \A q \in seen : q = walk.next \/ Newer(q, walk.next)
      BY <2>1, <3>1 DEF OnceInv, SeenIsNewer
    <3>3. ~walk'.back => \A q \in seen' : q = walk'.at \/ Newer(q, walk.at)'
      BY <1>2, <2>2, <2>3, <3>1, <3>2 DEF Newer, rows
    <3> QED
      BY <2>2, <2>3, <3>1, <3>3 DEF SeenIsNewer
  <2> QED
    BY <2>2, <2>3 DEF SeenIsNewer
<1>5. CASE ReadPage
  <2>1. walk \in Begun /\ walk # NotBegun /\ walk.pc = "ask"
    BY <1>1, <1>5 DEF ReadPage
  <2>2. PICK S \in SUBSET Beyond(walk) :
          walk' = [walk EXCEPT !.pc = "answer", !.page = S, !.more = S # Beyond(walk)]
    BY <1>5 DEF ReadPage
  <2>3. walk'.pc = "answer" /\ walk'.at = walk.at /\ walk'.dir = walk.dir /\ walk'.page = S
        /\ walk'.back = walk.back /\ seen' = seen
    BY <1>5, <2>1, <2>2 DEF Begun, ReadPage
  <2>4. walk.dir = "next" /\ walk.at # NoProfile => \A q \in S : Newer(walk.at, q)
    BY DEF Beyond, Toward
  <2>5. walk.dir = "next" /\ walk.at # NoProfile => \A q \in S : Newer(walk.at, q)'
    BY <1>2, <2>3, <2>4 DEF Newer, rows
  <2>6. \A q \in seen : Newer(q, walk.at) => Newer(q, walk.at)'
    BY <1>2, <2>3 DEF Newer, rows
  <2> QED
    BY <2>1, <2>3, <2>5, <2>6 DEF OnceInv, SeenIsNewer
<1>6. CASE Answer
  <2>1. walk \in Begun /\ walk # NotBegun /\ walk.pc = "answer"
    BY <1>1, <1>6 DEF Answer
  <2>2. PICK next, prev \in walk.page \cup {NoProfile} :
          /\ walk' = [walk EXCEPT !.pc = "shown", !.next = next, !.prev = prev]
          /\ walk.dir = "next" /\ next # NoProfile => IsLast(next, walk.page)
    <3>1. CASE walk.page = {}
      BY <1>6, <3>1 DEF Answer
    <3>2. CASE walk.page # {}
      <4>1. PICK first, last \in walk.page :
              /\ IsLast(last, walk.page)
              /\ walk' = [walk EXCEPT !.pc = "shown", !.next = NextCursor(walk, last),
                                      !.prev = PrevCursor(walk, first)]
        BY <1>6, <3>2 DEF Answer
      <4> QED
        BY <4>1 DEF NextCursor, PrevCursor
    <3> QED
      BY <3>1, <3>2
  <2>3. walk'.pc = "shown" /\ walk'.dir = walk.dir /\ walk'.next = next
        /\ walk'.back = walk.back /\ seen' = seen \cup walk.page
    BY <1>6, <2>1, <2>2 DEF Begun, Answer
  <2>4. walk.page \subseteq Ids /\ seen \subseteq Ids /\ walk.at \in OptId
    BY <2>1 DEF Begun, OnceInv, TypeOK
  <2>5. ASSUME ~walk.back, next # NoProfile, NEW q \in seen'
        PROVE  q = next \/ Newer(q, next)
    <3>1. walk.dir = "next" /\ next \in walk.page
      BY <2>1, <2>2, <2>5 DEF OnceInv, SeenIsNewer
    <3>2. CASE q \in walk.page
      BY <2>2, <2>5, <3>1, <3>2 DEF IsLast
    <3>3. CASE q \in seen
      <4>1. walk.at # NoProfile /\ (q = walk.at \/ Newer(q, walk.at)) /\ Newer(walk.at, next)
        BY <2>1, <2>5, <3>1, <3>3 DEF OnceInv, SeenIsNewer
      <4> QED
        BY <2>4, <3>1, <3>3, <4>1, Order DEF OnceInv, OptId
    <3> QED
      BY <2>3, <2>5, <3>2, <3>3
  <2>6. ~walk'.back /\ walk'.next # NoProfile =>
          \A q \in seen' : q = walk'.next \/ Newer(q, walk.next)'
    BY <1>2, <2>3, <2>5 DEF Newer, rows
  <2> QED
    BY <2>1, <2>3, <2>6 DEF OnceInv, SeenIsNewer
<1>7. CASE ListFails
  <2>1. walk \in Begun /\ walk # NotBegun /\ walk.pc = "answer"
    BY <1>1, <1>7 DEF ListFails
  <2>2. walk'.pc = "ask" /\ walk'.at = walk.at /\ walk'.dir = walk.dir /\ seen' = seen
        /\ walk'.back = walk.back
    BY <1>7, <2>1 DEF ListFails, Begun
  <2>3. \A q \in seen : Newer(q, walk.at) => Newer(q, walk.at)'
    BY <1>2, <2>2 DEF Newer, rows
  <2> QED
    BY <2>1, <2>2, <2>3 DEF OnceInv, SeenIsNewer
<1> QED
  BY <1>3, <1>4, <1>5, <1>6, <1>7 DEF Walk

LEMMA OnceInit == Init => OnceInv
BY TypesInit, PlacedInit DEF Init, OnceInv, SeenIsNewer

LEMMA OnceNext == OnceInv /\ [Next]_vars => OnceInv'
<1> SUFFICES ASSUME OnceInv, [Next]_vars PROVE OnceInv'
  OBVIOUS
<1>1. TypeOK'
  BY TypesNext DEF OnceInv
<1>2. CASE Walk
  BY <1>1, <1>2, PlacedWalk, SeenWalk DEF OnceInv
<1>3. CASE Write
  BY <1>1, <1>3, PlacedWrite, SeenWrite DEF OnceInv
<1>4. CASE UNCHANGED vars
  BY <1>1, <1>4 DEF OnceInv, Placed, SeenIsNewer, Known, Listed, Newer, vars, rows
<1> QED
  BY <1>2, <1>3, <1>4 DEF Next

\* A client that only follows next cursors is shown no profile twice, also when profiles were
\* created, deleted, merged and changed between its pages.
THEOREM OnceSafety == Spec => VisitsOnce
<1>1. OnceInv => (walk.pc = "answer" /\ ~walk.back => seen \cap walk.page = {})
  <2> SUFFICES ASSUME OnceInv, walk.pc = "answer", ~walk.back, NEW p \in seen \cap walk.page
               PROVE  FALSE
    OBVIOUS
  <2>1. walk \in Begun /\ walk # NotBegun
    BY WalkKinds DEF OnceInv, TypeOK
  <2>2. walk.at # NoProfile /\ (p = walk.at \/ Newer(p, walk.at)) /\ Newer(walk.at, p)
    BY <2>1 DEF OnceInv, SeenIsNewer
  <2>3. p \in Ids /\ walk.at \in Ids
    BY <2>1, <2>2 DEF OnceInv, TypeOK, Begun, OptId
  <2> QED
    BY <2>2, <2>3, Order DEF OnceInv
<1>2. OnceInv => [walk.pc = "answer" /\ walk'.pc = "shown" /\ ~walk.back
                    => seen \cap walk.page = {}]_vars
  BY <1>1
<1> QED
  BY <1>2, OnceInit, OnceNext, PTL DEF Spec, VisitsOnce

-----------------------------------------------------------------------------
(* A walk that turns comes to the page it came from.                       *)

Opposite(dir) == IF dir = "next" THEN "prev" ELSE "next"

\* Reading in a direction, p comes before q, by the creation times t.
Comes(t, dir, p, q) ==
  IF dir = "next" THEN t[p] > t[q] \/ (t[p] = t[q] /\ p > q)
                  ELSE t[q] > t[p] \/ (t[q] = t[p] /\ q > p)

\* The list from a profile on, with it, and after a cursor.
From(at, dir, L, t)  == {p \in L : p = at \/ Comes(t, dir, at, p)}
After(at, dir, L, t) == {p \in L : at = NoProfile \/ Comes(t, dir, at, p)}

\* S is the page that B begins with.
PageOf(S, B, size, dir, t) ==
  /\ S \subseteq B
  /\ S # B => Cardinality(S) = size
  /\ Cardinality(S) <= size
  /\ \A p \in S, q \in B \ S : Comes(t, dir, p, q)

\* A profile that a page ends with.
Ends(at, S, dir, t) == at \in S /\ \A q \in S \ {at} : Comes(t, dir, q, at)

LEMMA ComesOrder ==
  ASSUME NEW t \in [Ids -> Times], NEW dir \in {"next", "prev"}
  PROVE  /\ \A p, q \in Ids : p # q => Comes(t, dir, p, q) \/ Comes(t, dir, q, p)
         /\ \A p, q \in Ids : ~(Comes(t, dir, p, q) /\ Comes(t, dir, q, p))
         /\ \A p, q, r \in Ids : Comes(t, dir, p, q) /\ Comes(t, dir, q, r) => Comes(t, dir, p, r)
         /\ \A p, q \in Ids : Comes(t, Opposite(dir), p, q) <=> Comes(t, dir, q, p)
         /\ Opposite(dir) \in {"next", "prev"} /\ Opposite(Opposite(dir)) = dir
<1>1. \A p \in Ids : p \in Nat /\ t[p] \in Nat
  BY ListAssumption DEF ListAssumption
<1>2. \A p, q \in Ids : p # q => Comes(t, dir, p, q) \/ Comes(t, dir, q, p)
  BY <1>1 DEF Comes
<1>3. \A p, q \in Ids : ~(Comes(t, dir, p, q) /\ Comes(t, dir, q, p))
  BY <1>1 DEF Comes
<1>4. \A p, q, r \in Ids : Comes(t, dir, p, q) /\ Comes(t, dir, q, r) => Comes(t, dir, p, r)
  BY <1>1 DEF Comes
<1>5. \A p, q \in Ids : Comes(t, Opposite(dir), p, q) <=> Comes(t, dir, q, p)
  BY DEF Comes, Opposite
<1> QED
  BY <1>2, <1>3, <1>4, <1>5 DEF Opposite

\* Two pages that a list begins with are the same.
LEMMA OnePage ==
  ASSUME NEW t \in [Ids -> Times], NEW dir \in {"next", "prev"}, NEW B \in SUBSET Ids, NEW size,
         NEW S, PageOf(S, B, size, dir, t), NEW T, PageOf(T, B, size, dir, t)
  PROVE  S = T
<1>1. IsFiniteSet(B)
  BY ListAssumption, FS_Subset DEF ListAssumption
<1>2. /\ S \subseteq B /\ T \subseteq B
      /\ IsFiniteSet(S) /\ IsFiniteSet(T)
      /\ Cardinality(S) \in Nat /\ Cardinality(T) \in Nat /\ Cardinality(B) \in Nat
  BY <1>1, FS_Subset, FS_CardinalityType DEF PageOf
<1>3. \A X \in SUBSET B : IsFiniteSet(X) =>
        \A Y \in SUBSET X : Y # X => Cardinality(Y) < Cardinality(X)
  <2> SUFFICES ASSUME NEW X \in SUBSET B, IsFiniteSet(X), NEW Y \in SUBSET X, Y # X
               PROVE  Cardinality(Y) < Cardinality(X)
    OBVIOUS
  <2>1. IsFiniteSet(Y) /\ Cardinality(Y) <= Cardinality(X) /\ Cardinality(X) # Cardinality(Y)
    BY FS_Subset
  <2>2. Cardinality(X) \in Nat /\ Cardinality(Y) \in Nat
    BY <2>1, FS_CardinalityType
  <2> QED
    BY <2>1, <2>2
<1>4. CASE S = B
  <2>1. T # B => Cardinality(T) < Cardinality(S) /\ Cardinality(T) = size
    BY <1>1, <1>2, <1>3, <1>4 DEF PageOf
  <2> QED
    BY <1>2, <1>4, <2>1 DEF PageOf
<1>5. CASE T = B
  <2>1. S # B => Cardinality(S) < Cardinality(T) /\ Cardinality(S) = size
    BY <1>1, <1>2, <1>3, <1>5 DEF PageOf
  <2> QED
    BY <1>2, <1>5, <2>1 DEF PageOf
<1>6. CASE S # B /\ T # B
  <2> SUFFICES ASSUME S # T PROVE FALSE
    OBVIOUS
  <2>1. Cardinality(S) = size /\ Cardinality(T) = size
    BY <1>6 DEF PageOf
  <2>2. PICK p \in S : p \notin T
    BY <1>2, <1>3, <2>1
  <2>3. PICK q \in T : q \notin S
    BY <1>2, <1>3, <2>1
  <2>4. Comes(t, dir, p, q) /\ Comes(t, dir, q, p)
    BY <1>2, <2>2, <2>3 DEF PageOf
  <2> QED
    BY <1>2, <2>2, <2>3, <2>4, ComesOrder
<1> QED
  BY <1>4, <1>5, <1>6

\* Going on from the end of a full page, the page is what the list begins with the other way.
LEMMA PageBehind ==
  ASSUME NEW t \in [Ids -> Times], NEW dir \in {"next", "prev"}, NEW L \in SUBSET Ids, NEW size,
         NEW old \in OptId, NEW S, PageOf(S, After(old, dir, L, t), size, dir, t),
         S # After(old, dir, L, t), NEW at, Ends(at, S, dir, t)
  PROVE  PageOf(S, From(at, Opposite(dir), L, t), size, Opposite(dir), t)
<1>1. S \subseteq L /\ S \subseteq Ids /\ at \in S /\ at \in Ids
  BY DEF PageOf, After, Ends
<1>2. \A p, q \in Ids : Comes(t, Opposite(dir), p, q) <=> Comes(t, dir, q, p)
  BY ComesOrder
<1>3. S \subseteq From(at, Opposite(dir), L, t)
  BY <1>1, <1>2 DEF From, Ends
<1>4. ASSUME NEW p \in S, NEW q \in From(at, Opposite(dir), L, t) \ S
      PROVE  Comes(t, Opposite(dir), p, q)
  <2>1. p \in Ids /\ q \in Ids /\ q \in L /\ q # at /\ Comes(t, dir, q, at)
    BY <1>1, <1>2 DEF From
  <2>2. q \notin After(old, dir, L, t)
    <3>1. ~Comes(t, dir, at, q)
      BY <1>1, <2>1, ComesOrder
    <3> QED
      BY <1>1, <3>1 DEF PageOf
  <2>3. old \in Ids /\ ~Comes(t, dir, old, q) /\ Comes(t, dir, old, p)
    BY <2>1, <2>2 DEF After, PageOf, OptId
  <2>4. q = old \/ Comes(t, dir, q, old)
    BY <2>1, <2>3, ComesOrder
  <2>5. Comes(t, dir, q, p)
    BY <2>1, <2>3, <2>4, ComesOrder
  <2> QED
    BY <1>2, <2>1, <2>5
<1>5. Cardinality(S) = size
  BY DEF PageOf
<1> QED
  BY <1>3, <1>4, <1>5 DEF PageOf

\* Turning at the beginning of a page, the page is what the list begins with behind the turn.
LEMMA PageTurned ==
  ASSUME NEW t \in [Ids -> Times], NEW dir \in {"next", "prev"}, NEW L \in SUBSET Ids, NEW size,
         NEW old \in OptId, NEW S, PageOf(S, After(old, dir, L, t), size, dir, t),
         NEW at, Ends(at, S, Opposite(dir), t)
  PROVE  From(at, dir, L, t) = After(old, dir, L, t)
<1>1. S \subseteq After(old, dir, L, t) /\ at \in S /\ at \in Ids /\ at \in L
  BY DEF PageOf, After, Ends
<1>2. \A q \in S \ {at} : Comes(t, dir, at, q)
  BY <1>1, ComesOrder DEF Ends, After
<1>3. \A q \in After(old, dir, L, t) \ S : Comes(t, dir, at, q)
  BY <1>1 DEF PageOf
<1>4. After(old, dir, L, t) \subseteq From(at, dir, L, t)
  BY <1>2, <1>3 DEF After, From
<1>5. ASSUME NEW p \in From(at, dir, L, t) PROVE p \in After(old, dir, L, t)
  <2>1. p \in Ids /\ p \in L /\ (p = at \/ Comes(t, dir, at, p))
    BY DEF From
  <2>2. old # NoProfile => old \in Ids /\ Comes(t, dir, old, at)
    BY <1>1 DEF After, OptId
  <2>3. old # NoProfile => Comes(t, dir, old, p)
    BY <1>1, <2>1, <2>2, ComesOrder
  <2> QED
    BY <2>1, <2>3 DEF After
<1> QED
  BY <1>4, <1>5

\* Before the turn lies what lay before the page.
LEMMA TurnedPlace ==
  ASSUME NEW t \in [Ids -> Times], NEW dir \in {"next", "prev"}, NEW L \in SUBSET Ids, NEW size,
         NEW old \in Ids, old # NoProfile, NEW S, PageOf(S, After(old, dir, L, t), size, dir, t),
         NEW at, Ends(at, S, Opposite(dir), t)
  PROVE  After(at, Opposite(dir), L, t) = From(old, Opposite(dir), L, t)
<1>1. S \subseteq After(old, dir, L, t) /\ at \in S /\ at \in Ids /\ Comes(t, dir, old, at)
  BY DEF PageOf, After, Ends
<1>2. at # NoProfile
  BY <1>1, ListAssumption DEF ListAssumption
<1>3. \A p, q \in Ids : Comes(t, Opposite(dir), p, q) <=> Comes(t, dir, q, p)
  BY ComesOrder
<1>4. From(at, dir, L, t) = After(old, dir, L, t)
  BY PageTurned DEF OptId
<1>5. ASSUME NEW p \in L
      PROVE  Comes(t, dir, p, at) <=> p = old \/ Comes(t, dir, p, old)
  <2>1. p \in Ids
    OBVIOUS
  <2>2. Comes(t, dir, old, p) <=> p = at \/ Comes(t, dir, at, p)
    BY <1>4 DEF From, After
  <2> QED
    BY <1>1, <2>1, <2>2, ComesOrder
<1> QED
  BY <1>1, <1>2, <1>3, <1>5 DEF After, From

\* What is known of the pages that were read since the list last changed: the page is what the
\* list begins with after its cursor, and when it is left what the list begins with the other
\* way; the page before lies behind it, and once the walk has turned, ahead.
ListNow == Listed(walk.filtered)

Pages ==
  /\ walk = NotBegun => quiet = 0
  /\ quiet > 0 =>
       /\ walk.pc # "ask" =>
            /\ PageOf(walk.page, After(walk.at, walk.dir, ListNow, time), walk.size, walk.dir, time)
            /\ walk.more = (walk.page # After(walk.at, walk.dir, ListNow, time))
       /\ walk.pc = "shown" =>
            /\ walk.next # NoProfile =>
                 Ends(walk.next, walk.page, "next", time) /\ (walk.dir = "next" => walk.more)
            /\ walk.prev # NoProfile =>
                 Ends(walk.prev, walk.page, "prev", time) /\ (walk.dir = "prev" => walk.more)
       /\ walk.pc = "ask" =>
            /\ walk.at # NoProfile
            /\ PageOf(walk.page, From(walk.at, Opposite(walk.dir), ListNow, time), walk.size,
                      Opposite(walk.dir), time)
  /\ quiet = 2 =>
       /\ walk.pc # "ask" =>
            /\ walk.at # NoProfile
            /\ PageOf(before, From(walk.at, Opposite(walk.dir), ListNow, time), walk.size,
                      Opposite(walk.dir), time)
       /\ walk.pc = "ask" /\ walk.came # walk.dir =>
            PageOf(before, After(walk.at, walk.dir, ListNow, time), walk.size, walk.dir, time)

TurnInv == TypeOK /\ Placed /\ Pages

\* All that the invariant says is by the creation times of profiles that were created.
LEMMA PagesKept ==
  ASSUME NEW K, NEW t, NEW u, \A p \in K : u[p] = t[p], NEW L \in SUBSET K, NEW dir, NEW size,
         NEW S, NEW at \in K \cup {NoProfile}
  PROVE  /\ After(at, dir, L, u) = After(at, dir, L, t)
         /\ at # NoProfile => From(at, dir, L, u) = From(at, dir, L, t)
         /\ S \subseteq K => (Ends(at, S, dir, u) <=> Ends(at, S, dir, t))
         /\ \A B \in SUBSET K : PageOf(S, B, size, dir, u) <=> PageOf(S, B, size, dir, t)
<1>1. \A p, q \in K : Comes(u, dir, p, q) <=> Comes(t, dir, p, q)
  BY DEF Comes
<1>2. After(at, dir, L, u) = After(at, dir, L, t)
  BY <1>1 DEF After
<1>3. at # NoProfile => From(at, dir, L, u) = From(at, dir, L, t)
  BY <1>1 DEF From
<1>4. S \subseteq K => (Ends(at, S, dir, u) <=> Ends(at, S, dir, t))
  BY <1>1 DEF Ends
<1>5. ASSUME NEW B \in SUBSET K
      PROVE  PageOf(S, B, size, dir, u) <=> PageOf(S, B, size, dir, t)
  BY <1>1 DEF PageOf
<1> QED
  BY <1>2, <1>3, <1>4, <1>5

LEMMA PagesWrite ==
  ASSUME TurnInv, Write
  PROVE  Pages'
<1>1. KnownStays
  BY WritesKeepKnown DEF TurnInv
<1>2. walk # NotBegun /\ walk' = walk
  BY <1>1 DEF KnownStays, Notice
<1>3. CASE Listed(walk.filtered)' # Listed(walk.filtered)
  <2>1. quiet' = 0
    BY <1>1, <1>3 DEF KnownStays, Notice
  <2> QED
    BY <1>2, <2>1 DEF Pages
<1>4. CASE Listed(walk.filtered)' = Listed(walk.filtered)
  <2>1. ListNow' = ListNow /\ before' = before /\ quiet' = quiet
    BY <1>1, <1>2, <1>4 DEF KnownStays, Notice, ListNow
  <2>2. /\ ListNow \in SUBSET Known
        /\ walk.page \subseteq Known /\ walk.at \in Known \cup {NoProfile}
    BY <1>2, ListedIsKnown DEF TurnInv, Placed, ListNow
  <2>3. \A p \in Known : time'[p] = time[p]
    BY <1>1 DEF KnownStays
  <2> DEFINE A(t) == After(walk.at, walk.dir, ListNow, t)
             F(t) == From(walk.at, Opposite(walk.dir), ListNow, t)
  <2>4. /\ A(time') = A(time) /\ A(time) \in SUBSET Known
        /\ walk.at # NoProfile => F(time') = F(time) /\ F(time) \in SUBSET Known
    BY <2>2, <2>3, PagesKept DEF After, From
  <2>5. \A S, dir : \A B \in SUBSET Known :
          PageOf(S, B, walk.size, dir, time') <=> PageOf(S, B, walk.size, dir, time)
    BY <2>2, <2>3, PagesKept
  <2>6. \A at, dir : Ends(at, walk.page, dir, time') <=> Ends(at, walk.page, dir, time)
    <3> TAKE at, dir
    <3>1. CASE at \notin walk.page
      BY <3>1 DEF Ends
    <3>2. CASE at \in walk.page
      <4>1. at \in Known \cup {NoProfile}
        BY <2>2, <3>2
      <4> QED
        BY <2>2, <2>3, <4>1, PagesKept
    <3> QED
      BY <3>1, <3>2
  <2>7. \A S, dir :
          /\ PageOf(S, A(time'), walk.size, dir, time') <=> PageOf(S, A(time), walk.size, dir, time)
          /\ walk.at # NoProfile =>
               (PageOf(S, F(time'), walk.size, dir, time')
                  <=> PageOf(S, F(time), walk.size, dir, time))
    <3> HIDE DEF A, F
    <3> QED
      BY <2>4, <2>5
  <2>8. quiet' > 0 =>
       /\ walk.pc # "ask" =>
            /\ PageOf(walk.page, A(time'), walk.size, walk.dir, time')
            /\ walk.more = (walk.page # A(time'))
       /\ walk.pc = "shown" =>
            /\ walk.next # NoProfile =>
                 Ends(walk.next, walk.page, "next", time') /\ (walk.dir = "next" => walk.more)
            /\ walk.prev # NoProfile =>
                 Ends(walk.prev, walk.page, "prev", time') /\ (walk.dir = "prev" => walk.more)
       /\ walk.pc = "ask" =>
            /\ walk.at # NoProfile
            /\ PageOf(walk.page, F(time'), walk.size, Opposite(walk.dir), time')
    BY <2>1, <2>4, <2>6, <2>7 DEF TurnInv, Pages
  <2>9. quiet' = 2 =>
       /\ walk.pc # "ask" =>
            walk.at # NoProfile /\ PageOf(before, F(time'), walk.size, Opposite(walk.dir), time')
       /\ walk.pc = "ask" /\ walk.came # walk.dir =>
            PageOf(before, A(time'), walk.size, walk.dir, time')
    BY <2>1, <2>4, <2>7 DEF TurnInv, Pages
  <2> QED
    BY <1>2, <2>1, <2>8, <2>9 DEF Pages
<1> QED
  BY <1>3, <1>4

\* The order of the list is that of its cursors.
LEMMA CursorOrder ==
  ASSUME TypeOK, walk \in Begun
  PROVE  /\ Beyond(walk) = After(walk.at, walk.dir, ListNow, time)
         /\ \A S : S \subseteq Beyond(walk) /\ Nearest(S, walk) <=>
                    PageOf(S, Beyond(walk), walk.size, walk.dir, time)
         /\ \A p, S : IsFirst(p, S) /\ p \in S <=> Ends(p, S, "prev", time)
         /\ \A p, S : IsLast(p, S) /\ p \in S <=> Ends(p, S, "next", time)
<1>1. \A p, q : Toward(walk.dir, p, q) <=> Comes(time, walk.dir, p, q)
  BY DEF Toward, Newer, Comes
<1>2. \A p, q : /\ Comes(time, "next", p, q) <=> Newer(p, q)
                /\ Comes(time, "prev", p, q) <=> Newer(q, p)
  BY DEF Newer, Comes
<1>3. Beyond(walk) = After(walk.at, walk.dir, ListNow, time)
  BY <1>1 DEF Beyond, After, ListNow
<1>4. \A S : S \subseteq Beyond(walk) /\ Nearest(S, walk) <=>
             PageOf(S, Beyond(walk), walk.size, walk.dir, time)
  BY <1>1 DEF Nearest, PageOf
<1>5. \A p, S : IsFirst(p, S) /\ p \in S <=> Ends(p, S, "prev", time)
  BY <1>2 DEF IsFirst, Ends
<1>6. \A p, S : IsLast(p, S) /\ p \in S <=> Ends(p, S, "next", time)
  BY <1>2 DEF IsLast, Ends
<1> QED
  BY <1>3, <1>4, <1>5, <1>6

LEMMA PagesFollow ==
  ASSUME TurnInv, NEW dir \in {"next", "prev"}, Follow(dir)
  PROVE  Pages'
<1>1. walk \in Begun /\ walk # NotBegun /\ walk.pc = "shown"
  BY WalkKinds DEF TurnInv, TypeOK, Follow
<1>2. /\ walk' # NotBegun /\ walk'.pc = "ask" /\ walk'.came = walk.dir /\ walk'.dir = dir
      /\ walk'.page = walk.page /\ walk'.size = walk.size /\ walk'.filtered = walk.filtered
      /\ walk'.at = (IF dir = "next" THEN walk.next ELSE walk.prev) /\ walk'.at # NoProfile
  <2> DEFINE at == IF dir = "next" THEN walk.next ELSE walk.prev
  <2>1. /\ at # NoProfile
        /\ walk' = [walk EXCEPT !.pc = "ask", !.came = walk.dir, !.dir = dir, !.at = at,
                                !.back = @ \/ dir = "prev", !.next = NoProfile,
                                !.prev = NoProfile]
    BY DEF Follow
  <2> HIDE DEF at
  <2>2. /\ walk'.pc = "ask" /\ walk'.came = walk.dir /\ walk'.dir = dir
        /\ walk'.page = walk.page /\ walk'.size = walk.size /\ walk'.filtered = walk.filtered
        /\ walk'.at = at
    BY <1>1, <2>1 DEF Begun
  <2> QED
    BY <2>1, <2>2 DEF at, NotBegun
<1>3. time' = time /\ ListNow' = ListNow /\ before' = before /\ quiet' = quiet
  BY <1>2, ListedStays DEF Follow, ListNow, rows
<1>4. time \in [Ids -> Times] /\ ListNow \in SUBSET Ids /\ walk.at \in OptId
      /\ walk.dir \in {"next", "prev"}
  BY <1>1 DEF TurnInv, TypeOK, Begun, ListNow, Listed
<1>5. quiet > 0 =>
        /\ PageOf(walk.page, After(walk.at, walk.dir, ListNow, time), walk.size, walk.dir, time)
        /\ walk.more = (walk.page # After(walk.at, walk.dir, ListNow, time))
        /\ Ends(walk'.at, walk.page, dir, time) /\ (walk.dir = dir => walk.more)
  BY <1>1, <1>2 DEF TurnInv, Pages
<1>6. quiet > 0 =>
        PageOf(walk.page, From(walk'.at, Opposite(dir), ListNow, time), walk.size, Opposite(dir),
               time)
  <2>1. CASE quiet > 0 /\ dir = walk.dir
    BY <1>4, <1>5, <2>1, PageBehind
  <2>2. CASE quiet > 0 /\ dir # walk.dir
    <3>1. dir = Opposite(walk.dir) /\ Opposite(dir) = walk.dir
      BY <1>4, <2>2 DEF Opposite
    <3>2. From(walk'.at, walk.dir, ListNow, time) = After(walk.at, walk.dir, ListNow, time)
      BY <1>4, <1>5, <2>2, <3>1, PageTurned
    <3> QED
      BY <1>5, <2>2, <3>1, <3>2
  <2> QED
    BY <2>1, <2>2
<1>7. quiet = 2 /\ walk.dir # dir =>
        PageOf(before, After(walk'.at, dir, ListNow, time), walk.size, dir, time)
  <2> SUFFICES ASSUME quiet = 2, walk.dir # dir
               PROVE  PageOf(before, After(walk'.at, dir, ListNow, time), walk.size, dir, time)
    OBVIOUS
  <2>1. dir = Opposite(walk.dir)
    BY <1>4 DEF Opposite
  <2>2. walk.at \in Ids /\ walk.at # NoProfile
        /\ PageOf(before, From(walk.at, dir, ListNow, time), walk.size, dir, time)
    BY <1>1, <1>4, <2>1 DEF TurnInv, Pages, OptId
  <2>3. After(walk'.at, dir, ListNow, time) = From(walk.at, dir, ListNow, time)
    BY <1>4, <1>5, <2>1, <2>2, TurnedPlace
  <2> QED
    BY <2>2, <2>3
<1> QED
  BY <1>2, <1>3, <1>6, <1>7 DEF Pages

LEMMA PagesRead ==
  ASSUME TurnInv, ReadPage
  PROVE  Pages'
<1>1. walk \in Begun /\ walk # NotBegun /\ walk.pc = "ask"
  BY WalkKinds DEF TurnInv, TypeOK, ReadPage
<1>2. PICK S \in SUBSET Beyond(walk) :
        /\ Nearest(S, walk)
        /\ walk' = [walk EXCEPT !.pc = "answer", !.page = S, !.more = S # Beyond(walk)]
  BY DEF ReadPage
<1>3. /\ walk'.pc = "answer" /\ walk'.at = walk.at /\ walk'.dir = walk.dir
      /\ walk'.page = S /\ walk'.more = (S # Beyond(walk)) /\ walk'.size = walk.size
      /\ walk'.filtered = walk.filtered
  BY <1>1, <1>2 DEF Begun
<1>4. time' = time /\ ListNow' = ListNow /\ before' = walk.page
      /\ quiet' = IF quiet = 2 THEN 2 ELSE quiet + 1
  BY <1>3, ListedStays DEF ReadPage, ListNow, rows
<1>5. /\ PageOf(S, After(walk.at, walk.dir, ListNow, time), walk.size, walk.dir, time)
      /\ Beyond(walk) = After(walk.at, walk.dir, ListNow, time)
  BY <1>1, <1>2, CursorOrder DEF TurnInv
<1>6. quiet \in 0..2 /\ (quiet' = 2 => quiet > 0)
  BY <1>4 DEF TurnInv, TypeOK
<1>7. quiet' = 2 =>
        /\ walk.at # NoProfile
        /\ PageOf(walk.page, From(walk.at, Opposite(walk.dir), ListNow, time), walk.size,
                  Opposite(walk.dir), time)
  BY <1>1, <1>6 DEF TurnInv, Pages
<1>8. walk' # NotBegun
  BY <1>3 DEF NotBegun
<1> QED
  BY <1>3, <1>4, <1>5, <1>7, <1>8 DEF Pages

LEMMA PagesAnswer ==
  ASSUME TurnInv, Answer
  PROVE  Pages'
<1>1. walk \in Begun /\ walk # NotBegun /\ walk.pc = "answer"
  BY WalkKinds DEF TurnInv, TypeOK, Answer
<1>2. PICK next, prev \in walk.page \cup {NoProfile} :
        /\ walk' = [walk EXCEPT !.pc = "shown", !.next = next, !.prev = prev]
        /\ next # NoProfile =>
             Ends(next, walk.page, "next", time) /\ (walk.dir = "next" => walk.more)
        /\ prev # NoProfile =>
             Ends(prev, walk.page, "prev", time) /\ (walk.dir = "prev" => walk.more)
  <2>1. CASE walk.page = {}
    BY <2>1 DEF Answer
  <2>2. CASE walk.page # {}
    <3>1. PICK first, last \in walk.page :
            /\ IsFirst(first, walk.page) /\ IsLast(last, walk.page)
            /\ walk' = [walk EXCEPT !.pc = "shown", !.next = NextCursor(walk, last),
                                    !.prev = PrevCursor(walk, first)]
      BY <2>2 DEF Answer
    <3>2. Ends(last, walk.page, "next", time) /\ Ends(first, walk.page, "prev", time)
      BY <1>1, <3>1, CursorOrder DEF TurnInv
    <3> QED
      BY <3>1, <3>2 DEF NextCursor, PrevCursor
  <2> QED
    BY <2>1, <2>2
<1>3. /\ walk'.pc = "shown" /\ walk'.at = walk.at /\ walk'.dir = walk.dir
      /\ walk'.page = walk.page /\ walk'.more = walk.more /\ walk'.size = walk.size
      /\ walk'.filtered = walk.filtered /\ walk'.next = next /\ walk'.prev = prev
  BY <1>1, <1>2 DEF Begun
<1>4. time' = time /\ ListNow' = ListNow /\ before' = before /\ quiet' = quiet
  BY <1>3, ListedStays DEF Answer, ListNow, rows
<1>5. walk' # NotBegun
  BY <1>3 DEF NotBegun
<1> QED
  BY <1>1, <1>2, <1>3, <1>4, <1>5 DEF TurnInv, Pages

LEMMA PagesWalk ==
  ASSUME TurnInv, Walk
  PROVE  Pages'
<1>1. ASSUME NEW size \in PageSizes, NEW filtered \in BOOLEAN, Begin(size, filtered)
      PROVE  Pages'
  BY <1>1 DEF Begin, TurnInv, Pages, NotBegun
<1>2. CASE ListFails
  <2>1. walk \in Begun
    BY <1>2, WalkKinds DEF TurnInv, TypeOK, ListFails
  <2>2. quiet' = 0 /\ walk'.pc = "ask"
    BY <1>2, <2>1 DEF ListFails, Begun
  <2> QED
    BY <2>2 DEF Pages, NotBegun
<1> QED
  BY <1>1, <1>2, PagesFollow, PagesRead, PagesAnswer DEF Walk

LEMMA TurnInit == Init => TurnInv
BY TypesInit, PlacedInit DEF Init, TurnInv, Pages

LEMMA TurnNext == TurnInv /\ [Next]_vars => TurnInv'
<1> SUFFICES ASSUME TurnInv, [Next]_vars PROVE TurnInv'
  OBVIOUS
<1>1. TypeOK'
  BY TypesNext DEF TurnInv
<1>2. CASE Walk
  BY <1>1, <1>2, PlacedWalk, PagesWalk DEF TurnInv
<1>3. CASE Write
  BY <1>1, <1>3, PlacedWrite, PagesWrite DEF TurnInv
<1>4. CASE UNCHANGED vars
  BY <1>1, <1>4 DEF TurnInv, Placed, Pages, ListNow, Known, Listed, vars, rows
<1> QED
  BY <1>2, <1>3, <1>4 DEF Next

\* A page that was stepped back from comes again when the client steps on, and the other way
\* about, if nothing came to the list or left it meanwhile (profile_pagination_test.go).
THEOREM TurnSafety == Spec => TurningReturns
<1>1. TurnInv /\ [Next]_vars =>
        (walk.pc = "ask" /\ walk'.pc = "answer" /\ quiet = 2 /\ walk.came # walk.dir
           => walk'.page = before)
  <2> SUFFICES ASSUME TurnInv, [Next]_vars, walk.pc = "ask", walk'.pc = "answer", quiet = 2,
                      walk.came # walk.dir
               PROVE  walk'.page = before
    OBVIOUS
  <2>1. walk \in Begun
    BY WalkKinds DEF TurnInv, TypeOK
  <2>2. ReadPage
    <3>1. walk' # walk
      OBVIOUS
    <3>2. ~Write
      BY <3>1 DEF Write, Create, Delete, Change, Merge, InsertMaster, Attach, MergeFails, Notice
    <3>3. \A size, filtered : ~Begin(size, filtered)
      BY <2>1 DEF Begin, NotBegun
    <3> QED
      BY <3>1, <3>2, <3>3 DEF Next, Walk, Follow, Answer, ListFails, vars
  <2>3. PICK S \in SUBSET Beyond(walk) :
          /\ Nearest(S, walk)
          /\ walk' = [walk EXCEPT !.pc = "answer", !.page = S, !.more = S # Beyond(walk)]
    BY <2>2 DEF ReadPage
  <2>4. walk'.page = S
    BY <2>1, <2>3 DEF Begun
  <2>5. /\ PageOf(S, Beyond(walk), walk.size, walk.dir, time)
        /\ PageOf(before, Beyond(walk), walk.size, walk.dir, time)
    BY <2>1, <2>3, CursorOrder DEF TurnInv, Pages
  <2>6. time \in [Ids -> Times] /\ walk.dir \in {"next", "prev"} /\ Beyond(walk) \in SUBSET Ids
    BY <2>1 DEF TurnInv, TypeOK, Begun, Beyond, Listed
  <2> QED
    BY <2>4, <2>5, <2>6, OnePage
<1> QED
  BY <1>1, TurnInit, TurnNext, PTL DEF Spec, TurningReturns
=============================================================================
