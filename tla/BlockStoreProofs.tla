-------------------------- MODULE BlockStoreProofs --------------------------
(***************************************************************************)
(* Proofs about BlockStore for every number of views, set of bodies and    *)
(* limits.                                                                 *)
(*                                                                         *)
(* Whether a body may go is decided by its view, so the invariant follows  *)
(* the views: a digest the finalizer has to take was certified at its view *)
(* (Reaches), so the certified view is at or above it, and a body stored   *)
(* under it before or after that is too.  The views the finalizer asked    *)
(* the store to hold are at or below every digest it has to take, because  *)
(* it only takes digests while a report asks.                              *)
(*                                                                         *)
(* The counters follow the map: each operation counts out the bodies it    *)
(* drops and counts in the one it files, and the caps are enforced last.   *)
(***************************************************************************)
EXTENDS BlockStore, FiniteSetTheorems, WellFoundedInduction, TLAPS

Block == [bytes : Contents, verified : BOOLEAN, certified : BOOLEAN, view : Nat]

\* A store has the fields that decide what is kept, and its counters.
Fields == {"map", "certified_view", "certified_digests", "held_view", "finalized_view",
           "bytes", "candidates", "candidateBytes"}
Shape(s) == s = [f \in DOMAIN s |-> s[f]] /\ Fields \subseteq DOMAIN s

\* Bodies, finitely many, and remembered digests have views.
Viewed(s) ==
    /\ s.map \in [DOMAIN s.map -> Block] /\ IsFiniteSet(DOMAIN s.map)
    /\ s.certified_digests \in [DOMAIN s.certified_digests -> Nat]
    /\ s.certified_view \in Nat
    /\ s.held_view \in Nat \cup {NoView}

\* A body of a remembered digest is certified, at its view or above.
Remembered(s) ==
    \A d \in DOMAIN s.map \cap DOMAIN s.certified_digests :
        s.map[d].certified /\ s.map[d].view >= s.certified_digests[d]

Sound(s) == Shape(s) /\ Viewed(s) /\ Remembered(s)

\* The store has seen d's certificate: it files no body of d below d.
Reaches(s, d) ==
    /\ d <= s.certified_view
    /\ d \in DOMAIN s.map => s.map[d].view >= d

\* A digest to be taken was certified, and a hold is at or below it.
Holds ==
    /\ pending \subseteq Nat /\ settled \subseteq pending
    /\ report \in [at : {"none", "certified", "queued", "asked"}, view : Nat,
                   held : Nat \cup {NoView}]
    /\ \A d \in pending : Reaches(store, d)
    /\ report.at # "none" => Reaches(store, report.view)
    /\ \A d \in settled : store.held_view # NoView /\ store.held_view <= d
    /\ report.at = "asked" => \A d \in pending : report.held # NoView /\ report.held <= d

IInv == Sound(store) /\ Holds
-----------------------------------------------------------------------------
(* What the operations of Blocks change                                    *)

\* t has the certificates, the finalized view and the hold of s.
Same(s, t) ==
    /\ t.certified_view = s.certified_view
    /\ t.finalized_view = s.finalized_view
    /\ t.certified_digests = s.certified_digests
    /\ t.held_view = s.held_view

\* The map with a body filed under d.
Filed(m, d, block) == [e \in DOMAIN m \cup {d} |-> IF e = d THEN block ELSE m[e]]

\* add files the block and changes no certificate.
LEMMA AddFields ==
    ASSUME NEW s, Shape(s), NEW d, NEW block
    PROVE  /\ Shape(add(s, d, block)) /\ Same(s, add(s, d, block))
           /\ add(s, d, block).map = Filed(s.map, d, block)
BY DEF Shape, Fields, Same, Filed, add

\* take drops the block and changes no certificate.
LEMMA TakeFields ==
    ASSUME NEW s, Shape(s), NEW d
    PROVE  /\ Shape(take(s, d)) /\ Same(s, take(s, d))
           /\ take(s, d).map = Restrict(s.map, DOMAIN s.map \ {d})
BY DEF Shape, Fields, Same, take

\* Eviction drops the blocks and changes no certificate.
LEMMA WithoutFields ==
    ASSUME NEW s, Shape(s), NEW ds
    PROVE  /\ Shape(Without(s, ds)) /\ Same(s, Without(s, ds))
           /\ Without(s, ds).map = Restrict(s.map, DOMAIN s.map \ ds)
BY DEF Shape, Fields, Same, Without

\* note_certificate raises the certified view, and the views before the first.
LEMMA NoteFields ==
    ASSUME NEW s, Shape(s), NEW view
    PROVE  /\ Shape(note_certificate(s, view))
           /\ note_certificate(s, view).certified_view = Larger(s.certified_view, view)
           /\ note_certificate(s, view).certified_digests = s.certified_digests
           /\ note_certificate(s, view).held_view = s.held_view
           /\ note_certificate(s, view).finalized_view = s.finalized_view
           /\ note_certificate(s, view).map =
                 IF s.certified_view = 0 /\ view > 0
                 THEN [d \in DOMAIN s.map |-> [s.map[d] EXCEPT !.view = Larger(@, view)]]
                 ELSE s.map
BY DEF Shape, Fields, note_certificate
-----------------------------------------------------------------------------
(* Eviction                                                                *)

\* A non-empty set of naturals has its minimum: of the initial segments up to
\* its members, one is smallest.
LEMMA MinFacts ==
    ASSUME NEW S \in SUBSET Nat, S # {}
    PROVE  Min(S) \in S /\ \A y \in S : Min(S) <= y
<1> DEFINE Below == {0 .. x : x \in S}
           R == StrictSubsetOrdering(Nat)
<1>1. Below \subseteq FiniteSubsetsOf(Nat) /\ Below # {}
  <2>1. \A x \in S : IsFiniteSet(0 .. x) /\ 0 .. x \in SUBSET Nat
    BY FS_Interval
  <2> QED
    BY <2>1 DEF FiniteSubsetsOf
<1>2. IsWellFoundedOn(R, FiniteSubsetsOf(Nat))
  BY FS_StrictSubsetOrderingWellFounded
<1>3. PICK I \in Below : \A J \in Below : <<J, I>> \notin R
  <2> HIDE DEF Below, R
  <2> QED
    BY <1>1, <1>2, WFMin
<1>4. PICK x \in S : I = 0 .. x
  OBVIOUS
<1>5. \A y \in S : x <= y
  <2> SUFFICES ASSUME NEW y \in S, y < x PROVE FALSE
    OBVIOUS
  <2>1. 0 .. y \subseteq 0 .. x /\ 0 .. y # 0 .. x
    OBVIOUS
  <2>2. <<0 .. y, 0 .. x>> \in R
    BY <2>1 DEF StrictSubsetOrdering
  <2> QED
    BY <1>3, <1>4, <2>2
<1> QED
  BY <1>5 DEF Min

\* So of finite sets one is smallest.
LEMMA Smallest ==
    ASSUME NEW F, F # {}, \A S \in F : IsFiniteSet(S)
    PROVE  \E S \in F : \A T \in F : Cardinality(S) <= Cardinality(T)
<1> DEFINE Sizes == {Cardinality(S) : S \in F}
<1>1. Sizes \in SUBSET Nat /\ Sizes # {}
  BY FS_CardinalityType
<1>2. Min(Sizes) \in Sizes /\ \A n \in Sizes : Min(Sizes) <= n
  <2> HIDE DEF Sizes
  <2> QED
    BY <1>1, MinFacts
<1> QED
  BY <1>2

\* t is s without blocks a cap may take.
Thinned(s, t, low) ==
    /\ Shape(t) /\ Same(s, t)
    /\ DOMAIN t.map \subseteq DOMAIN s.map
    /\ t.map = [d \in DOMAIN t.map |-> s.map[d]]
    /\ \A d \in DOMAIN s.map \ DOMAIN t.map : vouched(s.map[d]) => s.map[d].view < low

\* The loop evicts eligible blocks: all of them, or enough.
LEMMA EvictsEligible ==
    ASSUME NEW s, IsFiniteSet(DOMAIN s.map), NEW cap, NEW eligible \in SUBSET DOMAIN s.map
    PROVE  \E ds \in SUBSET eligible :
              /\ Evict(s, eligible, cap) = Without(s, ds)
              /\ ds = eligible \/ ~Over(Without(s, ds), cap)
<1> DEFINE segments == {ds \in SUBSET eligible :
                           \A d \in ds, e \in eligible \ ds : EvictedBefore(s, d, e)}
           enough == {ds \in segments : ~Over(Without(s, ds), cap)}
           victims == IF enough = {} THEN eligible
                      ELSE CHOOSE ds \in enough :
                              \A es \in enough : Cardinality(ds) <= Cardinality(es)
<1>1. Evict(s, eligible, cap) = Without(s, victims)
  BY DEF Evict
<1>2. CASE enough = {}
  BY <1>1, <1>2
<1>3. CASE enough # {}
  <2>1. \A ds \in enough : IsFiniteSet(ds)
    <3>1. \A ds \in enough : ds \in SUBSET DOMAIN s.map
      OBVIOUS
    <3> HIDE DEF enough
    <3> QED
      BY <3>1, FS_Subset
  <2>2. victims \in enough
    <3> HIDE DEF enough
    <3>1. \E ds \in enough : \A es \in enough : Cardinality(ds) <= Cardinality(es)
      BY <1>3, <2>1, Smallest
    <3> QED
      BY <1>3, <3>1
  <2>3. victims \in SUBSET eligible /\ ~Over(Without(s, victims), cap)
    BY <2>2
  <2> HIDE DEF victims
  <2> QED
    BY <1>1, <2>3
<1> QED
  BY <1>2, <1>3

\* So t is s thinned.
LEMMA EvictThins ==
    ASSUME NEW s, Shape(s), IsFiniteSet(DOMAIN s.map), NEW cap, NEW low,
           NEW eligible \in SUBSET DOMAIN s.map,
           \A d \in eligible : vouched(s.map[d]) => s.map[d].view < low
    PROVE  Thinned(s, Evict(s, eligible, cap), low)
<1>1. PICK ds \in SUBSET eligible : Evict(s, eligible, cap) = Without(s, ds)
  BY EvictsEligible
<1> DEFINE t == Without(s, ds)
<1>2. Shape(t) /\ Same(s, t) /\ t.map = Restrict(s.map, DOMAIN s.map \ ds)
  BY WithoutFields
<1> HIDE DEF t
<1>3. DOMAIN t.map = DOMAIN s.map \ ds /\ t.map = [d \in DOMAIN t.map |-> s.map[d]]
  BY <1>2 DEF Restrict
<1>4. Thinned(s, t, low)
  BY <1>1, <1>2, <1>3 DEF Thinned
<1> QED
  BY <1>1, <1>4 DEF t

\* Both caps.
LEMMA CapsThin ==
    ASSUME NEW s, Sound(s) PROVE Thinned(s, enforce_caps(s), floor(s))
<1> DEFINE t == Evict(s, {d \in DOMAIN s.map : ~vouched(s.map[d])}, "candidates")
           eligible == {d \in DOMAIN t.map : ~vouched(t.map[d]) \/ t.map[d].view < floor(t)}
           u == Evict(t, eligible, "total")
<1>1. Thinned(s, t, floor(s))
  <2> DEFINE all == {d \in DOMAIN s.map : ~vouched(s.map[d])}
  <2>1. all \in SUBSET DOMAIN s.map /\ \A d \in all : vouched(s.map[d]) => s.map[d].view < floor(s)
    OBVIOUS
  <2>2. Shape(s) /\ IsFiniteSet(DOMAIN s.map)
    BY DEF Sound, Viewed
  <2> HIDE DEF all
  <2>3. Thinned(s, Evict(s, all, "candidates"), floor(s))
    BY <2>1, <2>2, EvictThins
  <2> QED
    BY <2>3 DEF all
<1> HIDE DEF t
<1>2. floor(t) = floor(s)
  BY <1>1 DEF Thinned, Same, floor
<1>3. Thinned(t, u, floor(s))
  <2>1. /\ eligible \in SUBSET DOMAIN t.map /\ Shape(t)
        /\ \A d \in eligible : vouched(t.map[d]) => t.map[d].view < floor(s)
    BY <1>1, <1>2 DEF Thinned
  <2>2. IsFiniteSet(DOMAIN t.map)
    BY <1>1, FS_Subset DEF Thinned, Sound, Viewed
  <2> HIDE DEF eligible
  <2> QED
    BY <2>1, <2>2, EvictThins
<1>4. enforce_caps(s) = u
  BY DEF enforce_caps, t
<1> HIDE DEF u
<1>5. Thinned(s, u, floor(s))
  BY <1>1, <1>3 DEF Thinned, Same
<1> QED
  BY <1>4, <1>5

\* A thinned store is as sound.
LEMMA ThinnedSound ==
    ASSUME NEW s, Sound(s), NEW t, NEW low, Thinned(s, t, low) PROVE Sound(t)
<1>1. IsFiniteSet(DOMAIN t.map)
  BY FS_Subset DEF Thinned, Sound, Viewed
<1> QED
  BY <1>1 DEF Sound, Thinned, Same, Viewed, Remembered

-----------------------------------------------------------------------------
(* Bodies come in                                                          *)

\* Bodies keep their views or gain, and new ones start at the certified view.
Raises(s, t) ==
    /\ s.certified_view <= t.certified_view
    /\ \A d \in DOMAIN t.map :
          IF d \in DOMAIN s.map THEN s.map[d].view <= t.map[d].view
          ELSE s.certified_view <= t.map[d].view

\* So a store that has seen d's certificate goes on doing so.
LEMMA RaisedReaches ==
    ASSUME NEW s, NEW t, Sound(s), Sound(t), Raises(s, t), NEW d \in Nat, Reaches(s, d)
    PROVE  Reaches(t, d)
<1>1. s.certified_view \in Nat /\ t.certified_view \in Nat
  BY DEF Sound, Viewed
<1>2. \A e \in DOMAIN s.map : s.map[e].view \in Nat
  BY DEF Sound, Viewed, Block
<1>3. \A e \in DOMAIN t.map : t.map[e].view \in Nat
  BY DEF Sound, Viewed, Block
<1> QED
  BY <1>1, <1>2, <1>3 DEF Raises, Reaches

\* The block insert files.
Arrives(s, d, b, verified) ==
    [bytes |-> b, verified |-> verified, certified |-> Placed(s, d).certified,
     view |-> Placed(s, d).view]

\* The store before the caps are enforced.
Arrived(s, d, b, verified) ==
    add(IF d \in DOMAIN s.map THEN take(s, d) ELSE [s EXCEPT !.arrival = Append(@, d)],
        d, Arrives(s, d, b, verified))

\* A body is placed at or above the certified view and its own certificate's.
LEMMA PlacedFacts ==
    ASSUME NEW s, Sound(s), NEW d
    PROVE  /\ Placed(s, d).view \in Nat /\ Placed(s, d).certified \in BOOLEAN
           /\ Placed(s, d).view >= s.certified_view
           /\ d \in DOMAIN s.map => /\ Placed(s, d).view >= s.map[d].view
                                    /\ Placed(s, d).certified = s.map[d].certified
           /\ d \in DOMAIN s.certified_digests =>
                 Placed(s, d).certified /\ Placed(s, d).view >= s.certified_digests[d]
<1>1. s.certified_view \in Nat /\ d \in DOMAIN s.certified_digests => s.certified_digests[d] \in Nat
  BY DEF Sound, Viewed
<1>2. s.certified_view \in Nat
  BY DEF Sound, Viewed
<1>3. d \in DOMAIN s.map => s.map[d].view \in Nat /\ s.map[d].certified \in BOOLEAN
  BY DEF Sound, Viewed, Block
<1>4. CASE d \in DOMAIN s.map
  <2>1. d \in DOMAIN s.certified_digests => /\ s.map[d].certified
                                            /\ s.map[d].view >= s.certified_digests[d]
    BY <1>4 DEF Sound, Remembered
  <2>2. /\ Placed(s, d).view = Larger(s.map[d].view, s.certified_view)
        /\ Placed(s, d).certified = s.map[d].certified
    BY <1>4 DEF Placed
  <2> QED
    BY <1>1, <1>2, <1>3, <1>4, <2>1, <2>2 DEF Larger
<1>5. CASE d \notin DOMAIN s.map /\ d \in DOMAIN s.certified_digests
  <2>1. /\ Placed(s, d).view = Larger(s.certified_view, s.certified_digests[d])
        /\ Placed(s, d).certified = TRUE
    BY <1>5 DEF Placed
  <2>2. Placed(s, d).certified \in BOOLEAN /\ Placed(s, d).certified
    BY <2>1, Zenon
  <2>3. /\ Placed(s, d).view \in Nat /\ Placed(s, d).view >= s.certified_view
        /\ Placed(s, d).view >= s.certified_digests[d]
    BY <1>1, <1>2, <1>5, <2>1 DEF Larger
  <2> QED
    BY <1>5, <2>2, <2>3, Zenon
<1>6. CASE d \notin DOMAIN s.map /\ d \notin DOMAIN s.certified_digests
  <2>1. Placed(s, d).view = s.certified_view /\ Placed(s, d).certified = FALSE
    BY <1>6 DEF Placed
  <2>2. Placed(s, d).certified \in BOOLEAN
    BY <2>1, Zenon
  <2>3. Placed(s, d).view \in Nat /\ Placed(s, d).view >= s.certified_view
    BY <1>2, <2>1
  <2> QED
    BY <1>6, <2>2, <2>3, Zenon
<1> QED
  BY <1>4, <1>5, <1>6

\* insert files the block, held before or not.
LEMMA ArrivedFields ==
    ASSUME NEW s, Sound(s), NEW d, NEW b, NEW verified
    PROVE  LET t == Arrived(s, d, b, verified) IN
           /\ Shape(t) /\ Same(s, t)
           /\ t.map = Filed(s.map, d, Arrives(s, d, b, verified))
<1> DEFINE c == IF d \in DOMAIN s.map THEN take(s, d) ELSE [s EXCEPT !.arrival = Append(@, d)]
           block == Arrives(s, d, b, verified)
<1>1. Shape(s)
  BY DEF Sound
<1>2. Shape(c) /\ Same(s, c) /\ Filed(c.map, d, block) = Filed(s.map, d, block)
  <2>1. CASE d \in DOMAIN s.map
    <3>1. Shape(c) /\ Same(s, c) /\ c.map = Restrict(s.map, DOMAIN s.map \ {d})
      BY <1>1, <2>1, TakeFields
    <3>2. DOMAIN c.map = DOMAIN s.map \ {d} /\ \A e \in DOMAIN c.map : c.map[e] = s.map[e]
      BY <3>1 DEF Restrict
    <3> HIDE DEF c, block
    <3> QED
      BY <2>1, <3>1, <3>2 DEF Filed
  <2>2. CASE d \notin DOMAIN s.map
    <3>1. c = [s EXCEPT !.arrival = Append(@, d)]
      BY <2>2
    <3> HIDE DEF c
    <3>2. Shape(c) /\ Same(s, c) /\ c.map = s.map
      BY <1>1, <3>1 DEF Shape, Fields, Same
    <3> QED
      BY <3>2
  <2> QED
    BY <2>1, <2>2
<1>3. Arrived(s, d, b, verified) = add(c, d, block)
  BY DEF Arrived
<1> HIDE DEF c, block
<1>4. /\ Shape(add(c, d, block)) /\ Same(c, add(c, d, block))
      /\ add(c, d, block).map = Filed(c.map, d, block)
  BY <1>2, AddFields
<1>5. Same(s, add(c, d, block))
  BY <1>2, <1>4 DEF Same
<1> QED
  BY <1>2, <1>3, <1>4, <1>5 DEF block

\* Storing a body that is not sealed: sound, no view lowered, and no vouched
\* block goes from the floor up.
LEMMA InsertFacts ==
    ASSUME NEW s, Sound(s), NEW d, NEW b \in Contents, NEW verified \in BOOLEAN,
           ~(d \in DOMAIN s.map /\ s.map[d].verified)
    PROVE  LET t == insert(s, d, b, verified) IN
           /\ Sound(t) /\ Raises(s, t) /\ Same(s, t)
           /\ \A e \in DOMAIN s.map \ DOMAIN t.map : vouched(s.map[e]) => s.map[e].view < floor(s)
<1> DEFINE u == Arrived(s, d, b, verified)
           block == Arrives(s, d, b, verified)
           t == insert(s, d, b, verified)
<1>1. t = enforce_caps(u)
  BY DEF insert, Arrived, Arrives
<1>2. Shape(u) /\ Same(s, u) /\ u.map = Filed(s.map, d, block)
  BY ArrivedFields
<1>3. /\ block \in Block /\ block.view = Placed(s, d).view
      /\ block.certified = Placed(s, d).certified
  BY PlacedFacts DEF Arrives, Block
<1> HIDE DEF u, block, t
<1>4. /\ DOMAIN u.map = DOMAIN s.map \cup {d} /\ u.map[d] = block
      /\ u.map = [e \in DOMAIN u.map |-> u.map[e]]
      /\ \A e \in DOMAIN s.map : e # d => u.map[e] = s.map[e]
  BY <1>2 DEF Filed
<1>5. Sound(u)
  <2>1. Viewed(u)
    <3>1. IsFiniteSet(DOMAIN u.map)
      BY <1>4, FS_AddElement DEF Sound, Viewed
    <3> QED
      BY <1>2, <1>3, <1>4, <3>1 DEF Sound, Viewed, Same
  <2>2. Remembered(u)
    BY <1>2, <1>3, <1>4, PlacedFacts DEF Sound, Remembered, Same
  <2> QED
    BY <1>2, <2>1, <2>2 DEF Sound
<1>6. Thinned(u, t, floor(u))
  BY <1>1, <1>5, CapsThin
<1>7. Sound(t)
  BY <1>5, <1>6, ThinnedSound
<1>8. Same(s, t)
  BY <1>2, <1>6 DEF Thinned, Same
<1>9. \A e \in DOMAIN s.map : s.map[e].view \in Nat /\ u.map[e].view \in Nat
                              /\ s.map[e].view <= u.map[e].view
  <2>1. \A e \in DOMAIN s.map : s.map[e].view \in Nat
    BY DEF Sound, Viewed, Block
  <2> QED
    BY <1>3, <1>4, <2>1, PlacedFacts
<1>10. Raises(s, t)
  <2>1. s.certified_view \in Nat /\ t.certified_view = s.certified_view
    BY <1>8 DEF Same, Sound, Viewed
  <2>2. \A e \in DOMAIN t.map : e \in DOMAIN u.map /\ t.map[e] = u.map[e]
    BY <1>6 DEF Thinned
  <2>3. s.certified_view <= u.map[d].view
    BY <1>3, <1>4, <2>1, PlacedFacts
  <2> QED
    BY <1>4, <1>9, <2>1, <2>2, <2>3 DEF Raises
<1>11. ASSUME NEW e \in DOMAIN s.map \ DOMAIN t.map, vouched(s.map[e])
       PROVE  s.map[e].view < floor(s)
  <2>1. vouched(u.map[e])
    BY <1>3, <1>4, <1>11, PlacedFacts DEF vouched
  <2>2. u.map[e].view < floor(u)
    BY <1>4, <1>6, <1>11, <2>1 DEF Thinned
  <2>3. floor(u) = floor(s)
    BY <1>2 DEF floor, Same
  <2>4. floor(s) \in Int
    BY LimitsAssumption DEF floor, Sound, Viewed, Smaller, SaturatingSub, NoView
  <2> QED
    BY <1>9, <1>11, <2>2, <2>3, <2>4
<1> QED
  BY <1>7, <1>8, <1>10, <1>11 DEF t
-----------------------------------------------------------------------------
(* Certificates                                                            *)

\* A certificate only raises views.
LEMMA NoteFacts ==
    ASSUME NEW s, Sound(s), NEW view \in Nat
    PROVE  LET t == note_certificate(s, view) IN
           /\ Sound(t) /\ Raises(s, t) /\ view <= t.certified_view
           /\ DOMAIN t.map = DOMAIN s.map /\ t.held_view = s.held_view
           /\ t.certified_digests = s.certified_digests
           /\ t.finalized_view = s.finalized_view
           /\ \A d \in DOMAIN s.map : /\ vouched(t.map[d]) <=> vouched(s.map[d])
                                      /\ t.map[d].view >= s.map[d].view
<1> DEFINE t == note_certificate(s, view)
<1>1. /\ s.certified_view \in Nat /\ s.map \in [DOMAIN s.map -> Block] /\ IsFiniteSet(DOMAIN s.map)
      /\ s.certified_digests \in [DOMAIN s.certified_digests -> Nat]
      /\ s.held_view \in Nat \cup {NoView}
  BY DEF Sound, Viewed
<1>2. /\ Shape(t) /\ t.certified_view = Larger(s.certified_view, view)
      /\ t.certified_digests = s.certified_digests /\ t.held_view = s.held_view
      /\ t.finalized_view = s.finalized_view
      /\ t.map = IF s.certified_view = 0 /\ view > 0
                 THEN [d \in DOMAIN s.map |-> [s.map[d] EXCEPT !.view = Larger(@, view)]]
                 ELSE s.map
  BY NoteFields DEF Sound
<1> HIDE DEF t
<1>3. /\ t.certified_view \in Nat /\ s.certified_view <= t.certified_view
      /\ view <= t.certified_view
  BY <1>1, <1>2 DEF Larger
<1>4. /\ DOMAIN t.map = DOMAIN s.map
      /\ \A d \in DOMAIN s.map : /\ t.map[d] \in Block
                                 /\ t.map[d].verified = s.map[d].verified
                                 /\ t.map[d].certified = s.map[d].certified
                                 /\ t.map[d].view >= s.map[d].view
  <2>1. CASE s.certified_view = 0 /\ view > 0
    <3>1. t.map = [d \in DOMAIN s.map |-> [s.map[d] EXCEPT !.view = Larger(@, view)]]
      BY <1>2, <2>1
    <3> QED
      BY <1>1, <3>1 DEF Block, Larger
  <2>2. CASE ~(s.certified_view = 0 /\ view > 0)
    <3>1. t.map = s.map
      BY <1>2, <2>2
    <3> QED
      BY <1>1, <3>1 DEF Block
  <2> QED
    BY <2>1, <2>2
<1>5. t.map = [d \in DOMAIN t.map |-> t.map[d]]
  BY <1>1, <1>2
<1>6. Viewed(t)
  BY <1>1, <1>2, <1>3, <1>4, <1>5 DEF Viewed
<1>7. Remembered(t)
  <2> SUFFICES ASSUME NEW d \in DOMAIN t.map \cap DOMAIN t.certified_digests
               PROVE  t.map[d].certified /\ t.map[d].view >= t.certified_digests[d]
    BY DEF Remembered
  <2>1. s.map[d].certified /\ s.map[d].view >= s.certified_digests[d]
    BY <1>2, <1>4 DEF Sound, Remembered
  <2>2. s.map[d].view \in Nat /\ t.map[d].view \in Nat /\ s.certified_digests[d] \in Nat
    BY <1>1, <1>2, <1>4 DEF Block
  <2>3. t.map[d].certified = s.map[d].certified /\ t.map[d].view >= s.map[d].view
    BY <1>4
  <2> QED
    BY <1>2, <2>1, <2>2, <2>3
<1>8. Raises(s, t)
  <2>1. \A d \in DOMAIN s.map : s.map[d].view \in Nat /\ t.map[d].view \in Nat
    BY <1>1, <1>4 DEF Block
  <2> QED
    BY <1>3, <1>4, <2>1 DEF Raises
<1>9. Sound(t)
  BY <1>2, <1>6, <1>7 DEF Sound
<1>10. \A d \in DOMAIN s.map : vouched(t.map[d]) <=> vouched(s.map[d])
  BY <1>4 DEF vouched
<1> QED
  BY <1>2, <1>3, <1>4, <1>8, <1>9, <1>10 DEF t

\* t is s with the body of d certified, at its view or above.
Marks(s, t, d, view) ==
    /\ Shape(t) /\ Same(s, t) /\ Viewed(t)
    /\ DOMAIN t.map = DOMAIN s.map
    /\ \A e \in DOMAIN s.map : e # d => t.map[e] = s.map[e]
    /\ d \in DOMAIN s.map => /\ t.map[d].certified = TRUE
                             /\ t.map[d].view >= s.map[d].view
                             /\ t.map[d].view >= view

\* A certificate marks the body it names.
LEMMA MarkedFacts ==
    ASSUME NEW s, Shape(s), Viewed(s), NEW d, NEW view \in Nat
    PROVE  Marks(s, Marked(s, d, view), d, view)
<1> DEFINE t == Marked(s, d, view)
<1>1. CASE d \notin DOMAIN s.map
  <2>1. t = s
    BY <1>1 DEF Marked
  <2> QED
    BY <1>1, <2>1 DEF Same, Marks
<1>2. CASE d \in DOMAIN s.map
  <2> DEFINE block == [s.map[d] EXCEPT !.certified = TRUE, !.view = Larger(@, view)]
             c == take(s, d)
  <2>1. s.map[d] \in Block
    BY <1>2 DEF Viewed
  <2>2. /\ block \in Block /\ block.certified = TRUE
        /\ block.view >= s.map[d].view /\ block.view >= view
    <3> DEFINE old == s.map[d]
               first == [old EXCEPT !.certified = TRUE]
               high == Larger(old.view, view)
    <3>1. /\ first \in Block /\ first.certified = TRUE /\ first.view = old.view
      BY <2>1 DEF Block
    <3>2. high \in Nat /\ high >= old.view /\ high >= view
      BY <2>1 DEF Block, Larger
    <3>3. block = [first EXCEPT !.view = high]
      OBVIOUS
    <3> HIDE DEF old, first, high, block
    <3>4. block \in Block /\ block.certified = TRUE /\ block.view = high
      BY <3>1, <3>2, <3>3 DEF Block
    <3> QED
      BY <3>2, <3>4 DEF old
  <2>3. t = add(c, d, block)
    BY <1>2 DEF Marked
  <2>4. Shape(c) /\ Same(s, c) /\ c.map = Restrict(s.map, DOMAIN s.map \ {d})
    BY TakeFields
  <2> HIDE DEF t, c, block
  <2>5. Shape(t) /\ Same(c, t) /\ t.map = Filed(c.map, d, block)
    BY <2>3, <2>4, AddFields
  <2>6. /\ DOMAIN t.map = DOMAIN s.map /\ t.map[d] = block
        /\ t.map = [e \in DOMAIN t.map |-> t.map[e]]
        /\ \A e \in DOMAIN s.map : e # d => t.map[e] = s.map[e]
    BY <1>2, <2>4, <2>5 DEF Filed, Restrict
  <2>7. Same(s, t)
    BY <2>4, <2>5 DEF Same
  <2>8. Viewed(t)
    BY <2>2, <2>6, <2>7 DEF Viewed, Same
  <2>9. /\ t.map[d].certified = TRUE /\ t.map[d].view >= s.map[d].view
        /\ t.map[d].view >= view
    BY <2>2, <2>6
  <2> QED
    BY <2>5, <2>6, <2>7, <2>8, <2>9 DEF t, Marks
<1> QED
  BY <1>1, <1>2
\* The digests remembered once d's certificate is.
Known(digests, d, at) ==
    [e \in DOMAIN digests \cup {d} |->
        IF e \notin DOMAIN digests THEN at
        ELSE IF e = d THEN Larger(digests[e], at)
        ELSE digests[e]]

\* Dropping the oldest keeps the views of the others.
LEMMA NewestFacts ==
    ASSUME NEW known, known = [d \in DOMAIN known |-> known[d]], NEW digests \in Newest(known)
    PROVE  /\ DOMAIN digests \subseteq DOMAIN known
           /\ digests = [d \in DOMAIN digests |-> known[d]]
<1>1. CASE digests = known
  BY <1>1
<1>2. ASSUME NEW d, digests = Restrict(known, DOMAIN known \ {d})
      PROVE  /\ DOMAIN digests \subseteq DOMAIN known
             /\ digests = [e \in DOMAIN digests |-> known[e]]
  BY <1>2 DEF Restrict
<1>3. digests = known \/ \E d : digests = Restrict(known, DOMAIN known \ {d})
  BY DEF Newest
<1> QED
  BY <1>1, <1>2, <1>3

\* A certificate leaves the store sound, with its own digest at its view.
LEMMA CertifyFacts ==
    ASSUME NEW s, Sound(s), NEW d, NEW view \in Nat \cup {NoView}, NEW t \in certify(s, d, view)
    PROVE  /\ Sound(t) /\ Raises(s, t) /\ t.held_view = s.held_view
           /\ DOMAIN t.map = DOMAIN s.map
           /\ view # NoView =>
                 /\ view <= t.certified_view
                 /\ d \in DOMAIN t.map => t.map[d].view >= view
<1> DEFINE noted == IF view = NoView THEN s ELSE note_certificate(s, view)
           at == IF view = NoView THEN noted.certified_view ELSE view
           known == Known(noted.certified_digests, d, at)
<1>1. /\ Sound(noted) /\ Raises(s, noted) /\ noted.held_view = s.held_view
      /\ DOMAIN noted.map = DOMAIN s.map
      /\ view # NoView => view <= noted.certified_view
  <2>1. CASE view = NoView
    <3>1. noted = s
      BY <2>1
    <3>2. s.certified_view \in Nat /\ \A e \in DOMAIN s.map : s.map[e].view \in Nat
      BY DEF Sound, Viewed, Block
    <3> HIDE DEF noted
    <3> QED
      BY <2>1, <3>1, <3>2 DEF Raises
  <2>2. CASE view # NoView
    <3>1. noted = note_certificate(s, view) /\ view \in Nat
      BY <2>2
    <3> HIDE DEF noted
    <3> QED
      BY <2>2, <3>1, NoteFacts
  <2> QED
    BY <2>1, <2>2
<1>2. at \in Nat /\ (view # NoView => at = view)
  BY <1>1 DEF Sound, Viewed
<1>3. PICK digests \in Newest(known) :
         t = Marked([noted EXCEPT !.certified_digests = digests], d, at)
  BY DEF certify, Known
<1> DEFINE m == [noted EXCEPT !.certified_digests = digests]
<1> HIDE DEF noted, at
<1>4. /\ DOMAIN known = DOMAIN noted.certified_digests \cup {d}
      /\ known = [e \in DOMAIN known |-> known[e]]
      /\ \A e \in DOMAIN known :
            known[e] = IF e \notin DOMAIN noted.certified_digests THEN at
                       ELSE IF e = d THEN Larger(noted.certified_digests[e], at)
                       ELSE noted.certified_digests[e]
  BY DEF Known
<1> HIDE DEF known
<1>5. /\ DOMAIN digests \subseteq DOMAIN known
      /\ digests = [e \in DOMAIN digests |-> known[e]]
  BY <1>3, <1>4, NewestFacts
<1>6. noted.certified_digests \in [DOMAIN noted.certified_digests -> Nat]
  BY <1>1 DEF Sound, Viewed
<1>7. \A e \in DOMAIN known : known[e] \in Nat
  BY <1>2, <1>4, <1>6 DEF Larger
<1>8. /\ Shape(m) /\ m.map = noted.map /\ m.certified_digests = digests
      /\ m.certified_view = noted.certified_view /\ m.held_view = noted.held_view
  BY <1>1 DEF Sound, Shape, Fields
<1>9. t = Marked(m, d, at)
  BY <1>3
<1> HIDE DEF m
<1>10. Viewed(m)
  BY <1>1, <1>5, <1>7, <1>8 DEF Sound, Viewed
<1>11. /\ Shape(t) /\ Same(m, t) /\ Viewed(t) /\ DOMAIN t.map = DOMAIN m.map
       /\ \A e \in DOMAIN m.map : e # d => t.map[e] = m.map[e]
       /\ d \in DOMAIN m.map => /\ t.map[d].certified = TRUE
                                /\ t.map[d].view >= m.map[d].view
                                /\ t.map[d].view >= at
  <2>1. Marks(m, t, d, at)
    BY <1>2, <1>8, <1>9, <1>10, MarkedFacts
  <2> QED
    BY <2>1 DEF Marks
<1>12. \A e \in DOMAIN t.map : t.map[e].view \in Nat /\ m.map[e].view \in Nat
                              /\ t.map[e].view >= m.map[e].view
  <2>1. \A e \in DOMAIN t.map : t.map[e].view \in Nat /\ m.map[e].view \in Nat
    BY <1>10, <1>11 DEF Viewed, Block
  <2> QED
    BY <1>11, <2>1
<1>13. Remembered(t)
  <2> SUFFICES ASSUME NEW e \in DOMAIN t.map \cap DOMAIN t.certified_digests
               PROVE  t.map[e].certified /\ t.map[e].view >= t.certified_digests[e]
    BY DEF Remembered
  <2>1. /\ e \in DOMAIN noted.map /\ e \in DOMAIN known
        /\ t.certified_digests[e] = known[e]
    BY <1>5, <1>8, <1>11 DEF Same
  <2>2. e \in DOMAIN noted.certified_digests =>
           /\ noted.map[e].certified
           /\ noted.map[e].view >= noted.certified_digests[e]
           /\ noted.certified_digests[e] \in Nat
    BY <1>1, <1>6, <2>1 DEF Sound, Remembered
  <2>3. CASE e = d
    <3>1. t.map[e].certified = TRUE
      BY <1>11, <2>3
    <3>2. t.map[e].view >= known[e]
      BY <1>2, <1>4, <1>8, <1>11, <1>12, <2>1, <2>2, <2>3 DEF Larger
    <3> QED
      BY <2>1, <3>1, <3>2
  <2>4. CASE e # d
    BY <1>4, <1>8, <1>11, <2>1, <2>2, <2>4
  <2> QED
    BY <2>3, <2>4
<1>14. Raises(s, t)
  <2>1. \A e \in DOMAIN s.map : s.map[e].view \in Nat
    BY DEF Sound, Viewed, Block
  <2>2. t.certified_view = noted.certified_view
    BY <1>8, <1>11 DEF Same
  <2> QED
    BY <1>1, <1>8, <1>11, <1>12, <2>1, <2>2 DEF Raises
<1>15. /\ Sound(t) /\ t.held_view = s.held_view /\ t.certified_view = noted.certified_view
  BY <1>1, <1>8, <1>11, <1>13 DEF Sound, Same
<1> QED
  BY <1>1, <1>2, <1>8, <1>11, <1>14, <1>15

-----------------------------------------------------------------------------
(* Finalization                                                            *)

\* A finalization drops only bodies below the window, and sets the hold.
LEMMA FinalizeFacts ==
    ASSUME NEW s, Sound(s), NEW view \in Nat, NEW held \in Nat \cup {NoView}
    PROVE  LET t == finalize(s, view, held) IN
           /\ Sound(t) /\ Raises(s, t) /\ t.held_view = held
           /\ \A d \in DOMAIN s.map \ DOMAIN t.map : s.map[d].view < below(view, held)
<1> DEFINE n == note_certificate(s, view)
           noted == [n EXCEPT !.held_view = held]
           low == below(view, held)
           kept == {d \in DOMAIN noted.certified_digests : noted.certified_digests[d] >= low}
           stale == {d \in DOMAIN noted.map : noted.map[d].view < low}
           u == Without(noted, stale)
           v == [u EXCEPT !.finalized_view = view, !.certified_digests = Restrict(@, kept)]
           t == finalize(s, view, held)
<1>1. /\ Sound(n) /\ Raises(s, n) /\ DOMAIN n.map = DOMAIN s.map
      /\ \A d \in DOMAIN s.map : n.map[d].view >= s.map[d].view
  BY NoteFacts
<1>2. t = noted \/ t = v
  BY DEF finalize
<1> HIDE DEF n
<1>3. /\ Shape(noted) /\ noted.map = n.map /\ noted.certified_view = n.certified_view
      /\ noted.certified_digests = n.certified_digests /\ noted.held_view = held
  BY <1>1 DEF Sound, Shape, Fields
<1> HIDE DEF noted
<1>4. Sound(noted)
  BY <1>1, <1>3 DEF Sound, Viewed, Remembered
<1>5. Raises(s, noted)
  BY <1>1, <1>3 DEF Raises
<1>6. \A d \in DOMAIN s.map : s.map[d].view \in Nat /\ noted.map[d].view \in Nat
  <2>1. \A d \in DOMAIN s.map : s.map[d].view \in Nat
    BY DEF Sound, Viewed, Block
  <2>2. \A d \in DOMAIN s.map : noted.map[d].view \in Nat
    BY <1>1, <1>3, <1>4 DEF Sound, Viewed, Block
  <2> QED
    BY <2>1, <2>2
<1>7. CASE t = noted
  <2> HIDE DEF t
  <2>1. DOMAIN s.map \ DOMAIN t.map = {}
    BY <1>1, <1>3, <1>7
  <2>2. Sound(t) /\ Raises(s, t) /\ t.held_view = held
    BY <1>3, <1>4, <1>5, <1>7
  <2> QED
    BY <2>1, <2>2 DEF t
<1>8. CASE t = v
  <2>1. Shape(u) /\ Same(noted, u) /\ u.map = Restrict(noted.map, DOMAIN noted.map \ stale)
    BY <1>3, WithoutFields
  <2> HIDE DEF u
  <2>2. DOMAIN u.map = DOMAIN noted.map \ stale /\ u.map = [d \in DOMAIN u.map |-> noted.map[d]]
    <3> HIDE DEF stale
    <3> QED
      BY <2>1 DEF Restrict
  <2>3. /\ Shape(v) /\ v.map = u.map /\ v.certified_view = u.certified_view
        /\ v.held_view = u.held_view
        /\ v.certified_digests = Restrict(u.certified_digests, kept)
    <3> HIDE DEF kept
    <3> QED
      BY <2>1 DEF Shape, Fields
  <2>4. v.certified_digests = [d \in kept |-> noted.certified_digests[d]]
    <3> HIDE DEF kept
    <3> QED
      BY <2>1, <2>3 DEF Restrict, Same
  <2> HIDE DEF v
  <2>5. /\ v.certified_view = noted.certified_view /\ v.held_view = held
        /\ DOMAIN v.map = DOMAIN noted.map \ stale
        /\ v.map = [d \in DOMAIN v.map |-> noted.map[d]]
    BY <1>3, <2>1, <2>2, <2>3 DEF Same
  <2>6. kept \subseteq DOMAIN noted.certified_digests
    OBVIOUS
  <2> HIDE DEF kept
  <2>7. Viewed(v)
    <3>1. \A d \in DOMAIN noted.map : noted.map[d] \in Block
      BY <1>4 DEF Sound, Viewed
    <3>2. v.map \in [DOMAIN v.map -> Block]
      BY <2>5, <3>1
    <3>3. \A d \in DOMAIN noted.certified_digests : noted.certified_digests[d] \in Nat
      BY <1>4 DEF Sound, Viewed
    <3>4. v.certified_digests \in [DOMAIN v.certified_digests -> Nat]
      BY <2>4, <2>6, <3>3
    <3>5. noted.certified_view \in Nat
      BY <1>4 DEF Sound, Viewed
    <3>6. IsFiniteSet(DOMAIN v.map)
      <4> HIDE DEF stale
      <4> QED
        BY <1>4, <2>5, FS_Subset DEF Sound, Viewed
    <3> QED
      BY <2>5, <3>2, <3>4, <3>5, <3>6 DEF Viewed
  <2>8. Remembered(v)
    BY <1>4, <2>4, <2>5, <2>6 DEF Sound, Remembered
  <2>9. Sound(v)
    BY <2>3, <2>7, <2>8 DEF Sound
  <2>10. Raises(s, v)
    BY <1>5, <2>5 DEF Raises
  <2>11. ASSUME NEW d \in DOMAIN s.map \ DOMAIN v.map PROVE s.map[d].view < low
    <3>1. noted.map[d].view < low
      BY <1>1, <1>3, <2>5, <2>11
    <3>2. low \in Int
      BY LimitsAssumption DEF below, SaturatingSub, Smaller, NoView
    <3> QED
      BY <1>1, <1>3, <1>6, <3>1, <3>2
  <2> QED
    BY <1>8, <2>5, <2>9, <2>10, <2>11
<1> QED
  BY <1>2, <1>7, <1>8
-----------------------------------------------------------------------------
(* The invariant                                                           *)

\* Digests and views are naturals, and bodies contents.
LEMMA NaturalViews ==
    /\ \A v \in Views : v \in Nat
    /\ \A d \in Views : Bodies[d] \subseteq Contents
    /\ Bodies[0] \subseteq Contents
BY LimitsAssumption DEF Views, Digests

\* An empty store is sound.
LEMMA EmptySound == Sound(Empty)
<1>1. /\ Empty.map = << >> /\ Empty.certified_digests = << >> /\ Empty.certified_view = 0
      /\ Empty.held_view = NoView
  BY DEF Empty
<1>2. Shape(Empty)
  BY DEF Empty, Shape, Fields
<1>3. DOMAIN Empty.map = {} /\ Empty.map = [d \in {} |-> 0]
      /\ Empty.certified_digests = [d \in {} |-> 0]
  BY <1>1
<1>4. Viewed(Empty)
  BY <1>1, <1>3, FS_EmptySet DEF Viewed
<1> QED
  BY <1>2, <1>3, <1>4 DEF Sound, Remembered

\* A host starts empty or with a replayed record.
LEMMA InitIInv == Init => IInv
<1> SUFFICES ASSUME Init PROVE IInv
  OBVIOUS
<1>1. Sound(Empty)
  BY EmptySound
<1>2. report \in [at : {"none", "certified", "queued", "asked"}, view : Nat,
                  held : Nat \cup {NoView}]
      /\ report.at = "none" /\ settled = {}
  BY DEF Init, NoReport
<1>3. CASE store = Empty /\ pending = {}
  BY <1>1, <1>2, <1>3 DEF IInv, Holds
<1>4. ASSUME NEW b \in Bodies[0], NEW verified \in BOOLEAN,
             store \in certify(insert(Empty, 0, b, verified), 0, NoView), pending = {0}
      PROVE  IInv
  <2> DEFINE s == insert(Empty, 0, b, verified)
  <2>1. DOMAIN Empty.map = {}
    BY DEF Empty
  <2>2. Sound(s)
    BY <1>1, <2>1, NaturalViews, InsertFacts
  <2>3. store \in certify(s, 0, NoView) /\ NoView \in Nat \cup {NoView}
    BY <1>4
  <2> HIDE DEF s
  <2>4. Sound(store)
    BY <2>2, <2>3, CertifyFacts
  <2>5. Reaches(store, 0)
    <3>1. store.certified_view \in Nat
      BY <2>4 DEF Sound, Viewed
    <3>2. \A d \in DOMAIN store.map : store.map[d].view \in Nat
      BY <2>4 DEF Sound, Viewed, Block
    <3> QED
      BY <3>1, <3>2 DEF Reaches
  <2> QED
    BY <1>2, <1>4, <2>4, <2>5 DEF IInv, Holds
<1> QED
  BY <1>3, <1>4 DEF Init

\* A step that leaves the store sound and lowers no view keeps what it reaches.
LEMMA KeepsReaching ==
    ASSUME IInv, Sound(store'), Raises(store, store')
    PROVE  /\ \A d \in pending : Reaches(store', d)
           /\ report.at # "none" => Reaches(store', report.view)
<1>1. /\ pending \subseteq Nat /\ report.view \in Nat /\ Sound(store)
      /\ \A d \in pending : Reaches(store, d)
      /\ report.at # "none" => Reaches(store, report.view)
  BY DEF IInv, Holds
<1> QED
  BY <1>1, RaisedReaches

\* Bodies and certificates.
LEMMA StoreStep ==
    ASSUME IInv, Sound(store'), Raises(store, store'), store'.held_view = store.held_view,
           UNCHANGED <<pending, report, settled>>
    PROVE  IInv'
<1>1. /\ \A d \in pending : Reaches(store', d)
      /\ report.at # "none" => Reaches(store', report.view)
  BY KeepsReaching
<1>2. Holds'
  <2>1. \A d \in pending' : Reaches(store', d)
    BY <1>1
  <2>2. report'.at # "none" => Reaches(store', report'.view)
    BY <1>1
  <2> QED
    BY <2>1, <2>2 DEF IInv, Holds, Reaches
<1> QED
  BY <1>2 DEF IInv

\* put and seal.
LEMMA BodySteps ==
    ASSUME IInv, NEW d \in Views, NEW b \in Bodies[d], put(d, b) \/ seal(d, b)
    PROVE  /\ IInv'
           /\ \A e \in DOMAIN store.map \ DOMAIN store'.map :
                 vouched(store.map[e]) => store.map[e].view < floor(store)
<1>1. PICK verified \in BOOLEAN : store' = insert(store, d, b, verified)
  BY DEF put, seal
<1>2. /\ ~(d \in DOMAIN store.map /\ store.map[d].verified)
      /\ UNCHANGED <<pending, report, settled>> /\ b \in Contents /\ Sound(store)
  BY NaturalViews DEF put, seal, sealed, IInv
<1>3. /\ Sound(store') /\ Raises(store, store') /\ Same(store, store')
      /\ \A e \in DOMAIN store.map \ DOMAIN store'.map :
            vouched(store.map[e]) => store.map[e].view < floor(store)
  BY <1>1, <1>2, InsertFacts
<1>4. store'.held_view = store.held_view
  BY <1>3 DEF Same
<1>5. IInv'
  BY <1>2, <1>3, <1>4, StoreStep
<1> QED
  BY <1>3, <1>5

\* certified, observe_certificate and the first step of a report.
LEMMA CertificateSteps ==
    ASSUME IInv, NEW v \in Views,
           certified(v) \/ observe_certificate(v) \/ ReportFinalization(v)
    PROVE  IInv' /\ DOMAIN store'.map = DOMAIN store.map
<1>1. v \in Nat /\ Sound(store)
  BY NaturalViews DEF IInv
<1>2. CASE certified(v)
  <2>1. store' \in certify(store, v, v) /\ UNCHANGED <<pending, report, settled>>
    BY <1>2 DEF certified
  <2>2. /\ Sound(store') /\ Raises(store, store') /\ store'.held_view = store.held_view
        /\ DOMAIN store'.map = DOMAIN store.map
    BY <1>1, <2>1, CertifyFacts
  <2> QED
    BY <2>1, <2>2, StoreStep
<1>3. CASE observe_certificate(v)
  <2>1. store' = note_certificate(store, v) /\ UNCHANGED <<pending, report, settled>>
    BY <1>3 DEF observe_certificate
  <2>2. /\ Sound(store') /\ Raises(store, store') /\ store'.held_view = store.held_view
        /\ DOMAIN store'.map = DOMAIN store.map
    BY <1>1, <2>1, NoteFacts
  <2> QED
    BY <2>1, <2>2, StoreStep
<1>4. CASE ReportFinalization(v)
  <2>1. /\ store' \in certify(store, v, v) /\ UNCHANGED <<pending, settled>>
        /\ report' = [NoReport EXCEPT !.at = "certified", !.view = v]
    BY <1>4 DEF ReportFinalization
  <2>2. /\ Sound(store') /\ Raises(store, store') /\ store'.held_view = store.held_view
        /\ DOMAIN store'.map = DOMAIN store.map
        /\ v <= store'.certified_view
        /\ v \in DOMAIN store'.map => store'.map[v].view >= v
    <3>1. v # NoView
      BY <1>1 DEF NoView
    <3> QED
      BY <1>1, <2>1, <3>1, CertifyFacts
  <2>3. report' = [at |-> "certified", view |-> v, held |-> NoView]
    BY <2>1 DEF NoReport
  <2>4. \A d \in pending : Reaches(store', d)
    BY <2>2, KeepsReaching
  <2>5. Reaches(store', v)
    BY <2>2 DEF Reaches
  <2>6. Holds'
    <3>1. /\ report'.at = "certified" /\ report'.view = v
          /\ report' \in [at : {"none", "certified", "queued", "asked"}, view : Nat,
                          held : Nat \cup {NoView}]
      BY <1>1, <2>3
    <3> QED
      BY <2>1, <2>2, <2>4, <2>5, <3>1 DEF IInv, Holds, Reaches
  <2> QED
    BY <2>2, <2>6 DEF IInv
<1> QED
  BY <1>2, <1>3, <1>4

\* Queueing the digest, asking for the hold, and the delivery.
LEMMA QueueSteps ==
    ASSUME IInv, on_finalized \/ AskHold \/ Deliver PROVE IInv'
<1> DEFINE Reports == [at : {"none", "certified", "queued", "asked"}, view : Nat,
                       held : Nat \cup {NoView}]
<1>1. UNCHANGED store /\ report \in Reports
  BY DEF IInv, Holds, on_finalized, AskHold, Deliver
<1>2. CASE on_finalized
  <2>1. /\ report' \in Reports /\ report'.at = "queued" /\ report'.view = report.view
        /\ pending' = pending \cup {report.view} /\ UNCHANGED settled /\ report.at = "certified"
    BY <1>1, <1>2 DEF on_finalized
  <2> QED
    BY <1>1, <2>1 DEF IInv, Holds, Reaches
<1>3. CASE AskHold
  <2>1. /\ report' = [report EXCEPT !.at = "asked", !.held = held_view]
        /\ UNCHANGED <<pending, settled>> /\ report.at = "queued"
    BY <1>3 DEF AskHold
  <2>2. held_view \in Nat \cup {NoView} /\ \A d \in pending : held_view \in Nat /\ held_view <= d
    BY MinFacts DEF held_view, IInv, Holds
  <2>3. report'.at = "asked" /\ report'.view = report.view /\ report'.held = held_view
        /\ report' \in Reports
    BY <1>1, <2>1, <2>2
  <2>4. \A d \in pending : report'.held # NoView /\ report'.held <= d
    BY <2>2, <2>3 DEF NoView
  <2> QED
    BY <1>1, <2>1, <2>3, <2>4 DEF IInv, Holds, Reaches
<1>4. CASE Deliver
  BY <1>1, <1>4 DEF Deliver, IInv, Holds, Reaches
<1> QED
  BY <1>2, <1>3, <1>4

\* The last step of a report.
LEMMA FinalizedStep ==
    ASSUME IInv, finalized
    PROVE  /\ IInv'
           /\ \A d \in DOMAIN store.map \ DOMAIN store'.map :
                 store.map[d].view < below(report.view, report.held)
<1>1. /\ store' = finalize(store, report.view, report.held) /\ report.at = "asked"
      /\ settled' = pending /\ report' = NoReport /\ UNCHANGED pending
  BY DEF finalized
<1>2. Sound(store) /\ report.view \in Nat /\ report.held \in Nat \cup {NoView}
  BY DEF IInv, Holds
<1>3. /\ Sound(store') /\ Raises(store, store') /\ store'.held_view = report.held
      /\ \A d \in DOMAIN store.map \ DOMAIN store'.map :
            store.map[d].view < below(report.view, report.held)
  BY <1>1, <1>2, FinalizeFacts
<1>4. \A d \in pending : Reaches(store', d)
  BY <1>3, KeepsReaching
<1>5. /\ report'.at = "none"
      /\ report' \in [at : {"none", "certified", "queued", "asked"}, view : Nat,
                      held : Nat \cup {NoView}]
  BY <1>1 DEF NoReport
<1>6. Holds'
  BY <1>1, <1>3, <1>4, <1>5 DEF IInv, Holds, Reaches
<1> QED
  BY <1>3, <1>6 DEF IInv

\* Every step, and stuttering.
LEMMA NextIInv == IInv /\ [Next]_vars => IInv'
<1> SUFFICES ASSUME IInv, [Next]_vars PROVE IInv'
  OBVIOUS
<1>1. CASE UNCHANGED vars
  BY <1>1 DEF vars, IInv, Sound, Shape, Viewed, Remembered, Holds, Reaches
<1> QED
  BY <1>1, BodySteps, CertificateSteps, QueueSteps, FinalizedStep DEF Next

-----------------------------------------------------------------------------
(* Theorems                                                                *)

\* The inductive invariant holds of every reachable state.
THEOREM Invariance == Spec => []IInv
BY InitIInv, NextIInv, PTL DEF Spec

\* A body of a remembered digest is certified at its view or above, whichever of
\* body and certificate came first.
THEOREM RememberedSafe == Spec => []CertifiedRemembered
<1>1. IInv => CertifiedRemembered
  BY DEF IInv, Sound, Remembered, CertifiedRemembered
<1> QED
  BY <1>1, Invariance, PTL

\* A verified or certified body the finalizer reported to hold is dropped by
\* neither a cap nor the window.
THEOREM PendingSafe == Spec => PendingKept
<1>1. ASSUME IInv, [Next]_vars
      PROVE  \A d \in DOMAIN store.map \ DOMAIN store'.map :
                d \in settled => ~vouched(store.map[d])
  <2> SUFFICES ASSUME NEW d \in DOMAIN store.map \ DOMAIN store'.map, d \in settled,
                      vouched(store.map[d])
               PROVE  FALSE
    OBVIOUS
  <2>1. /\ d \in Nat /\ d \in pending /\ Reaches(store, d)
        /\ store.held_view \in Nat /\ store.held_view <= d
    BY <1>1 DEF IInv, Holds, Sound, Viewed
  <2>2. store.map[d].view \in Nat /\ store.map[d].view >= d /\ store.certified_view \in Nat
    BY <1>1, <2>1 DEF IInv, Sound, Viewed, Block, Reaches
  <2>3. ASSUME NEW e \in Views, NEW b \in Bodies[e], put(e, b) \/ seal(e, b) PROVE FALSE
    <3>1. store.map[d].view < floor(store)
      BY <1>1, <2>3, BodySteps
    <3>2. floor(store) <= store.held_view /\ floor(store) \in Nat
      BY <2>1, <2>2, LimitsAssumption DEF floor, Smaller, SaturatingSub, NoView
    <3> QED
      BY <2>1, <2>2, <3>1, <3>2
  <2>4. CASE finalized
    <3>1. store.map[d].view < below(report.view, report.held)
      BY <1>1, <2>4, FinalizedStep
    <3>2. report.held \in Nat /\ report.held <= d /\ report.view \in Nat
      BY <1>1, <2>1, <2>4 DEF IInv, Holds, finalized
    <3>3. below(report.view, report.held) <= report.held /\ below(report.view, report.held) \in Nat
      BY <3>2, LimitsAssumption DEF below, Smaller, SaturatingSub, NoView
    <3> QED
      BY <2>1, <2>2, <3>1, <3>2, <3>3
  <2>5. CASE on_finalized \/ AskHold \/ Deliver \/ UNCHANGED vars
    <3>1. UNCHANGED store
      BY <2>5 DEF on_finalized, AskHold, Deliver, vars
    <3> QED
      BY <3>1
  <2>6. ASSUME NEW v \in Views, certified(v) \/ observe_certificate(v) \/ ReportFinalization(v)
        PROVE  FALSE
    BY <1>1, <2>6, CertificateSteps
  <2> QED
    BY <1>1, <2>3, <2>4, <2>5, <2>6 DEF Next
<1> QED
  BY <1>1, Invariance, PTL DEF Spec, PendingKept
-----------------------------------------------------------------------------
(* What the counters count                                                 *)

Candidates(s) == {d \in DOMAIN s.map : ~vouched(s.map[d])}

\* The counters are what the map holds.
Exact(s) ==
    /\ s.bytes = Bytes(s, DOMAIN s.map)
    /\ s.candidates = Cardinality(Candidates(s))
    /\ s.candidateBytes = Bytes(s, Candidates(s))

\* Bodies held have finitely many bytes.
LEMMA OctetsFinite ==
    ASSUME NEW s, Viewed(s), NEW ds \in SUBSET DOMAIN s.map
    PROVE  IsFiniteSet(ds) /\ IsFiniteSet(Octets(s, ds)) /\ Bytes(s, ds) \in Nat
<1> DEFINE Part(d) == {d} \X (1 .. Size[s.map[d].bytes])
           Parts == {Part(d) : d \in ds}
           part == [d \in ds |-> Part(d)]
<1>1. IsFiniteSet(ds)
  BY FS_Subset DEF Viewed
<1>2. \A d \in ds : Size[s.map[d].bytes] \in Nat
  BY LimitsAssumption DEF Viewed, Block
<1>3. \A d \in ds : IsFiniteSet(Part(d))
  <2> SUFFICES ASSUME NEW d \in ds PROVE IsFiniteSet(Part(d))
    OBVIOUS
  <2>1. IsFiniteSet({d})
    BY FS_Singleton
  <2>2. IsFiniteSet(1 .. Size[s.map[d].bytes])
    BY <1>2, FS_Interval
  <2> QED
    BY <2>1, <2>2, FS_Product
<1>4. part \in Surjection(ds, Parts)
  <2> HIDE DEF Part
  <2> QED
    BY DEF Surjection
<1>5. IsFiniteSet(Parts) /\ \A P \in Parts : IsFiniteSet(P)
  <2>1. \A P \in Parts : IsFiniteSet(P)
    BY <1>3
  <2> HIDE DEF Parts, part
  <2> QED
    BY <1>1, <1>4, <2>1, FS_Surjection
<1>6. IsFiniteSet(UNION Parts)
  <2> HIDE DEF Parts
  <2> QED
    BY <1>5, FS_UNION
<1>7. Octets(s, ds) = UNION Parts
  BY DEF Octets
<1> QED
  BY <1>1, <1>6, <1>7, FS_CardinalityType DEF Bytes

\* The bytes of disjoint sets of bodies add up.
LEMMA BytesAdd ==
    ASSUME NEW s, Viewed(s), NEW ds \in SUBSET DOMAIN s.map, NEW es \in SUBSET DOMAIN s.map,
           ds \cap es = {}
    PROVE  Bytes(s, ds \cup es) = Bytes(s, ds) + Bytes(s, es)
<1>1. Octets(s, ds \cup es) = Octets(s, ds) \cup Octets(s, es)
  BY DEF Octets
<1>2. Octets(s, ds) \cap Octets(s, es) = {}
  <2> SUFFICES ASSUME NEW o \in Octets(s, ds), o \in Octets(s, es) PROVE FALSE
    OBVIOUS
  <2>1. PICK d \in ds : o \in {d} \X (1 .. Size[s.map[d].bytes])
    BY DEF Octets
  <2>2. PICK e \in es : o \in {e} \X (1 .. Size[s.map[e].bytes])
    BY DEF Octets
  <2>3. o[1] = d /\ o[1] = e
    BY <2>1, <2>2
  <2> QED
    BY <2>3
<1>3. /\ IsFiniteSet(Octets(s, ds)) /\ IsFiniteSet(Octets(s, es))
      /\ Bytes(s, ds) \in Nat /\ Bytes(s, es) \in Nat
  BY OctetsFinite
<1> DEFINE A == Octets(s, ds)
           B == Octets(s, es)
<1>4. Cardinality(A \cup B) = Cardinality(A) + Cardinality(B) - Cardinality(A \cap B)
  <2> HIDE DEF A, B
  <2> QED
    BY <1>3, FS_Union DEF A, B
<1>5. Cardinality(A \cap B) = 0
  BY <1>2, FS_EmptySet
<1>6. Cardinality(A) \in Nat /\ Cardinality(B) \in Nat
  BY <1>3 DEF Bytes
<1>7. Cardinality(A \cup B) = Cardinality(A) + Cardinality(B)
  <2> HIDE DEF A, B
  <2> QED
    BY <1>4, <1>5, <1>6
<1> QED
  BY <1>1, <1>7 DEF Bytes

\* Bytes depend on the bodies alone.
LEMMA BytesSame ==
    ASSUME NEW s, NEW t, NEW ds, \A d \in ds : t.map[d].bytes = s.map[d].bytes
    PROVE  Bytes(t, ds) = Bytes(s, ds)
<1>1. Octets(t, ds) = Octets(s, ds)
  BY DEF Octets
<1> QED
  BY <1>1 DEF Bytes

\* One body has its length.
LEMMA BytesOne ==
    ASSUME NEW s, NEW d, Size[s.map[d].bytes] \in Nat
    PROVE  Bytes(s, {d}) = Size[s.map[d].bytes] /\ Bytes(s, {}) = 0
<1> DEFINE n == Size[s.map[d].bytes]
<1>1. Octets(s, {d}) = {d} \X (1 .. n) /\ Octets(s, {}) = {}
  BY DEF Octets
<1>2. IsFiniteSet({d}) /\ Cardinality({d}) = 1
  BY FS_Singleton
<1>3. IsFiniteSet(1 .. n) /\ Cardinality(1 .. n) = n
  <2>1. n \in Nat
    OBVIOUS
  <2> HIDE DEF n
  <2>2. 1 \in Int /\ n \in Int
    BY <2>1
  <2>3. IsFiniteSet(1 .. n) /\ Cardinality(1 .. n) = IF 1 > n THEN 0 ELSE n - 1 + 1
    BY <2>2, FS_Interval
  <2> QED
    BY <2>1, <2>3
<1>4. Cardinality({d} \X (1 .. n)) = n
  <2>1. n \in Nat
    OBVIOUS
  <2> DEFINE I == 1 .. n
  <2> HIDE DEF n, I
  <2>2. Cardinality({d} \X I) = Cardinality({d}) * Cardinality(I)
    BY <1>2, <1>3, FS_Product DEF I
  <2>3. Cardinality({d}) * Cardinality(I) = n
    BY <1>2, <1>3, <2>1 DEF I
  <2> QED
    BY <2>2, <2>3 DEF I
<1> HIDE DEF n
<1>5. Bytes(s, {d}) = n /\ Bytes(s, {}) = 0
  BY <1>1, <1>4, FS_EmptySet DEF Bytes
<1> QED
  BY <1>5 DEF n

\* t is s without the bodies of ds, counted out.
Dropped(s, t, ds) ==
    /\ DOMAIN t.map = DOMAIN s.map \ ds
    /\ \A d \in DOMAIN t.map : t.map[d] = s.map[d]
    /\ t.bytes = s.bytes - Bytes(s, ds)
    /\ t.candidates = s.candidates - Cardinality(ds \cap Candidates(s))
    /\ t.candidateBytes = s.candidateBytes - Bytes(s, ds \cap Candidates(s))

\* Counting out keeps the counters exact.
LEMMA DroppedExact ==
    ASSUME NEW s, Viewed(s), Exact(s), NEW ds \in SUBSET DOMAIN s.map, NEW t, Dropped(s, t, ds)
    PROVE  Exact(t) /\ Candidates(t) = Candidates(s) \ ds
<1> DEFINE rest == DOMAIN s.map \ ds
           C == Candidates(s)
           out == ds \cap C
           kept == C \ ds
<1>1. /\ rest \in SUBSET DOMAIN s.map /\ C \in SUBSET DOMAIN s.map
      /\ out \in SUBSET DOMAIN s.map /\ kept \in SUBSET DOMAIN s.map
      /\ DOMAIN s.map = ds \cup rest /\ ds \cap rest = {}
      /\ C = out \cup kept /\ out \cap kept = {}
  BY DEF Candidates
<1>2. Candidates(t) = kept
  BY DEF Candidates, Dropped
<1> HIDE DEF rest, C, out, kept
<1>3. Bytes(s, DOMAIN s.map) = Bytes(s, ds) + Bytes(s, rest)
  BY <1>1, BytesAdd
<1>4. Bytes(s, C) = Bytes(s, out) + Bytes(s, kept)
  BY <1>1, BytesAdd
<1>5. /\ Bytes(s, ds) \in Nat /\ Bytes(s, rest) \in Nat /\ Bytes(s, out) \in Nat
      /\ Bytes(s, kept) \in Nat /\ IsFiniteSet(out) /\ IsFiniteSet(kept)
  BY <1>1, OctetsFinite
<1>6. Cardinality(C) = Cardinality(out) + Cardinality(kept)
  <2>1. /\ Cardinality(out \cup kept) = Cardinality(out) + Cardinality(kept) - Cardinality(out \cap kept)
        /\ Cardinality(out) \in Nat /\ Cardinality(kept) \in Nat
    BY <1>5, FS_Union, FS_CardinalityType
  <2>2. Cardinality(out \cap kept) = 0
    BY <1>1, FS_EmptySet
  <2> QED
    BY <1>1, <2>1, <2>2
<1>7. Cardinality(out) \in Nat /\ Cardinality(kept) \in Nat
  BY <1>5, FS_CardinalityType
<1>8. Bytes(t, rest) = Bytes(s, rest)
  BY BytesSame DEF Dropped, rest
<1>9. Bytes(t, kept) = Bytes(s, kept)
  <2>1. kept \subseteq DOMAIN t.map
    BY <1>2 DEF Candidates
  <2> QED
    BY <2>1, BytesSame DEF Dropped
<1>10. /\ t.bytes = s.bytes - Bytes(s, ds) /\ t.candidates = s.candidates - Cardinality(out)
       /\ t.candidateBytes = s.candidateBytes - Bytes(s, out) /\ DOMAIN t.map = rest
  BY DEF Dropped, out, rest, C
<1>11. /\ s.bytes = Bytes(s, DOMAIN s.map) /\ s.candidates = Cardinality(C)
       /\ s.candidateBytes = Bytes(s, C)
  BY DEF Exact, C
<1>12. t.bytes = Bytes(s, rest) /\ t.candidates = Cardinality(kept) /\ t.candidateBytes = Bytes(s, kept)
  BY <1>3, <1>4, <1>5, <1>6, <1>7, <1>10, <1>11
<1> QED
  BY <1>2, <1>8, <1>9, <1>10, <1>12 DEF Exact, kept, C

\* The eviction of several counts out what it drops.
LEMMA WithoutDrops ==
    ASSUME NEW s, Shape(s), NEW ds \in SUBSET DOMAIN s.map
    PROVE  Dropped(s, Without(s, ds), ds)
<1> DEFINE t == Without(s, ds)
           out == {d \in ds : ~vouched(s.map[d])}
<1>1. /\ t.map = Restrict(s.map, DOMAIN s.map \ ds) /\ t.bytes = s.bytes - Bytes(s, ds)
      /\ t.candidates = s.candidates - Cardinality(out)
      /\ t.candidateBytes = s.candidateBytes - Bytes(s, out)
  BY DEF Shape, Fields, Without
<1>2. out = ds \cap Candidates(s)
  BY DEF Candidates
<1> HIDE DEF t, out
<1>3. DOMAIN t.map = DOMAIN s.map \ ds /\ \A d \in DOMAIN t.map : t.map[d] = s.map[d]
  BY <1>1 DEF Restrict
<1>4. Dropped(s, t, ds)
  BY <1>1, <1>2, <1>3 DEF Dropped
<1> QED
  BY <1>4 DEF t

\* So does take.
LEMMA TakeDrops ==
    ASSUME NEW s, Shape(s), Viewed(s), Exact(s), NEW d \in DOMAIN s.map
    PROVE  Dropped(s, take(s, d), {d})
<1> DEFINE t == take(s, d)
           n == Size[s.map[d].bytes]
           weight == IF vouched(s.map[d]) THEN 0 ELSE 1
           out == {d} \cap Candidates(s)
<1>1. /\ t.map = Restrict(s.map, DOMAIN s.map \ {d}) /\ t.bytes = s.bytes - n
      /\ t.candidates = s.candidates - weight
      /\ t.candidateBytes = s.candidateBytes - weight * n
  BY DEF Shape, Fields, take
<1>2. n \in Nat
  BY LimitsAssumption DEF Viewed, Block
<1>3. Bytes(s, {d}) = n /\ Bytes(s, {}) = 0
  BY <1>2, BytesOne
<1>4. Cardinality(out) = weight /\ Bytes(s, out) = weight * n
  <2>1. CASE vouched(s.map[d])
    <3>1. out = {} /\ weight = 0
      BY <2>1 DEF Candidates
    <3> HIDE DEF out, weight, n
    <3> QED
      BY <1>2, <1>3, <3>1, FS_EmptySet
  <2>2. CASE ~vouched(s.map[d])
    <3>1. out = {d} /\ weight = 1
      BY <2>2 DEF Candidates
    <3>2. Cardinality({d}) = 1 /\ IsFiniteSet({d})
      BY FS_Singleton
    <3> HIDE DEF out, weight, n
    <3>3. weight * n = n
      BY <1>2, <3>1
    <3> QED
      BY <1>3, <3>1, <3>2, <3>3
  <2> QED
    BY <2>1, <2>2
<1> HIDE DEF t, n, weight, out
<1>5. DOMAIN t.map = DOMAIN s.map \ {d} /\ \A e \in DOMAIN t.map : t.map[e] = s.map[e]
  BY <1>1 DEF Restrict
<1>6. Dropped(s, t, {d})
  BY <1>1, <1>3, <1>4, <1>5 DEF Dropped, out
<1> QED
  BY <1>6 DEF t

\* add counts the body in.
LEMMA AddExact ==
    ASSUME NEW s, Shape(s), Viewed(s), Exact(s), NEW d, d \notin DOMAIN s.map, NEW block \in Block
    PROVE  LET t == add(s, d, block) IN
           /\ Exact(t)
           /\ Candidates(t) = Candidates(s) \cup (IF vouched(block) THEN {} ELSE {d})
<1> DEFINE t == add(s, d, block)
           n == Size[block.bytes]
           weight == IF vouched(block) THEN 0 ELSE 1
           C == Candidates(s)
           new == IF vouched(block) THEN {} ELSE {d}
<1>1. /\ t.map = Filed(s.map, d, block) /\ t.bytes = s.bytes + n
      /\ t.candidates = s.candidates + weight
      /\ t.candidateBytes = s.candidateBytes + weight * n
  BY DEF Shape, Fields, add, Filed
<1>2. n \in Nat
  BY LimitsAssumption DEF Block
<1> HIDE DEF t
<1>3. /\ DOMAIN t.map = DOMAIN s.map \cup {d} /\ t.map[d] = block
      /\ t.map = [e \in DOMAIN t.map |-> t.map[e]]
      /\ \A e \in DOMAIN s.map : t.map[e] = s.map[e]
  BY <1>1 DEF Filed
<1>4. s.map \in [DOMAIN s.map -> Block] /\ IsFiniteSet(DOMAIN s.map)
  BY DEF Viewed
<1>5. \A e \in DOMAIN t.map : Size[t.map[e].bytes] \in Nat
  BY <1>3, <1>4, LimitsAssumption DEF Block
<1>6. Candidates(t) = C \cup new /\ C \subseteq DOMAIN s.map
  BY <1>3 DEF Candidates
<1>7. Bytes(t, {d}) = n /\ Bytes(t, {}) = 0
  BY <1>3, <1>5, BytesOne
<1>8. Cardinality(new) = weight /\ Bytes(t, new) = weight * n /\ IsFiniteSet(new)
  <2>1. CASE vouched(block)
    <3>1. new = {} /\ weight = 0
      BY <2>1
    <3> HIDE DEF new, weight, n
    <3> QED
      BY <1>2, <1>7, <3>1, FS_EmptySet
  <2>2. CASE ~vouched(block)
    <3>1. new = {d} /\ weight = 1
      BY <2>2
    <3>2. Cardinality({d}) = 1 /\ IsFiniteSet({d})
      BY FS_Singleton
    <3> HIDE DEF new, weight, n
    <3>3. weight * n = n
      BY <1>2, <3>1
    <3> QED
      BY <1>7, <3>1, <3>2, <3>3
  <2> QED
    BY <2>1, <2>2
<1>9. new \subseteq {d}
  OBVIOUS
<1> HIDE DEF n, weight, C, new
<1>10. /\ Bytes(t, DOMAIN s.map) = Bytes(s, DOMAIN s.map) /\ Bytes(t, C) = Bytes(s, C)
       /\ Bytes(s, DOMAIN s.map) \in Nat /\ Bytes(s, C) \in Nat /\ IsFiniteSet(C)
  BY <1>3, <1>6, BytesSame, OctetsFinite
<1>11. Viewed(t)
  <2>1. Same(s, t)
    BY AddFields DEF t
  <2>2. IsFiniteSet(DOMAIN t.map)
    BY <1>3, <1>4, FS_AddElement
  <2>3. t.map \in [DOMAIN t.map -> Block]
    BY <1>3, <1>4
  <2> QED
    BY <2>1, <2>2, <2>3 DEF Viewed, Same
<1>12. Bytes(t, DOMAIN t.map) = Bytes(t, DOMAIN s.map) + Bytes(t, {d})
  BY <1>3, <1>11, BytesAdd
<1>13. Bytes(t, C \cup new) = Bytes(t, C) + Bytes(t, new) /\ C \cap new = {}
  BY <1>3, <1>6, <1>9, <1>11, BytesAdd
<1>14. Cardinality(C \cup new) = Cardinality(C) + Cardinality(new) /\ Cardinality(C) \in Nat
  <2>1. /\ Cardinality(C \cup new) = Cardinality(C) + Cardinality(new) - Cardinality(C \cap new)
        /\ Cardinality(C) \in Nat /\ Cardinality(new) \in Nat
    BY <1>8, <1>10, FS_Union, FS_CardinalityType
  <2>2. Cardinality(C \cap new) = 0
    BY <1>13, FS_EmptySet
  <2> QED
    BY <2>1, <2>2
<1>15. s.bytes = Bytes(s, DOMAIN s.map) /\ s.candidates = Cardinality(C) /\ s.candidateBytes = Bytes(s, C)
  BY DEF Exact, C
<1>16. Exact(t)
  BY <1>1, <1>6, <1>7, <1>8, <1>10, <1>12, <1>13, <1>14, <1>15 DEF Exact
<1> QED
  BY <1>6, <1>16 DEF t, C, new

\* Fewer candidates stay within the cap.
LEMMA FewerFit ==
    ASSUME NEW s, Viewed(s), Exact(s), ~Over(s, "candidates"),
           NEW t, Exact(t), Candidates(t) \subseteq Candidates(s),
           \A d \in Candidates(t) : t.map[d].bytes = s.map[d].bytes
    PROVE  ~Over(t, "candidates")
<1> DEFINE C == Candidates(s)
           D == Candidates(t)
<1>1. C \in SUBSET DOMAIN s.map /\ D \in SUBSET DOMAIN s.map /\ C \ D \in SUBSET DOMAIN s.map
      /\ C = D \cup (C \ D) /\ D \cap (C \ D) = {}
  BY DEF Candidates
<1>2. Bytes(t, D) = Bytes(s, D)
  BY BytesSame
<1>3. t.candidates = Cardinality(D) /\ t.candidateBytes = Bytes(t, D)
      /\ s.candidates = Cardinality(C) /\ s.candidateBytes = Bytes(s, C)
  BY DEF Exact
<1> HIDE DEF C, D
<1>4. IsFiniteSet(C) /\ Bytes(s, C \ D) \in Nat /\ Bytes(s, D) \in Nat
  BY <1>1, OctetsFinite
<1>5. Bytes(s, C) = Bytes(s, D) + Bytes(s, C \ D)
  BY <1>1, BytesAdd
<1>6. Cardinality(D) <= Cardinality(C) /\ Cardinality(D) \in Nat /\ Cardinality(C) \in Nat
  BY <1>1, <1>4, FS_Subset, FS_CardinalityType
<1>7. ~(s.candidates > MaxCandidateBlocks) /\ ~(s.candidateBytes > MaxCandidateBytes)
  BY DEF Over
<1>8. ~(t.candidates > MaxCandidateBlocks) /\ ~(t.candidateBytes > MaxCandidateBytes)
  BY <1>2, <1>3, <1>4, <1>5, <1>6, <1>7, LimitsAssumption
<1> QED
  BY <1>8 DEF Over

\* Views and digests are those of the run, and the digests remembered are
\* within their cap.
Ranged(s) ==
    /\ DOMAIN s.map \subseteq Digests /\ \A d \in DOMAIN s.map : s.map[d].view \in Digests
    /\ DOMAIN s.certified_digests \subseteq Digests
    /\ \A d \in DOMAIN s.certified_digests : s.certified_digests[d] \in Digests
    /\ s.certified_view \in Digests /\ s.finalized_view \in 0 .. s.certified_view
    /\ Cardinality(DOMAIN s.certified_digests) <= MaxBlocks

Accounted(s) == Sound(s) /\ Exact(s) /\ Ranged(s) /\ ~Over(s, "candidates")

\* Enforcing the caps leaves the counters exact and the candidates within theirs:
\* none is left at worst, and the second cap adds none.
LEMMA CapsAccount ==
    ASSUME NEW s, Sound(s), Exact(s)
    PROVE  Exact(enforce_caps(s)) /\ ~Over(enforce_caps(s), "candidates")
<1> DEFINE C == Candidates(s)
           t == Evict(s, C, "candidates")
           eligible == {d \in DOMAIN t.map : ~vouched(t.map[d]) \/ t.map[d].view < floor(t)}
           u == Evict(t, eligible, "total")
<1>1. enforce_caps(s) = u
  BY DEF enforce_caps, Candidates
<1>2. Shape(s) /\ Viewed(s) /\ IsFiniteSet(DOMAIN s.map)
  BY DEF Sound, Viewed
<1>3. C \in SUBSET DOMAIN s.map /\ \A d \in C : vouched(s.map[d]) => s.map[d].view < floor(s)
  BY DEF Candidates
<1>4. eligible \in SUBSET DOMAIN t.map
  OBVIOUS
<1> HIDE DEF C, eligible
<1>5. Thinned(s, t, floor(s))
  BY <1>2, <1>3, EvictThins
<1>6. Sound(t)
  BY <1>5, ThinnedSound
<1>7. PICK ds \in SUBSET C : /\ t = Without(s, ds)
                             /\ ds = C \/ ~Over(Without(s, ds), "candidates")
  BY <1>2, <1>3, EvictsEligible
<1> HIDE DEF t, u
<1>8. Exact(t) /\ Candidates(t) = C \ ds
  <2>1. Dropped(s, t, ds)
    BY <1>2, <1>3, <1>7, WithoutDrops
  <2> QED
    BY <1>2, <1>3, <1>7, <2>1, DroppedExact DEF C
<1>9. ~Over(t, "candidates")
  <2>1. CASE ds = C
    <3>1. Candidates(t) = {}
      BY <1>8, <2>1
    <3>2. Octets(t, {}) = {}
      BY DEF Octets
    <3>3. t.candidates = 0 /\ t.candidateBytes = 0
      BY <1>8, <3>1, <3>2, FS_EmptySet DEF Exact, Bytes
    <3> QED
      BY <3>3, LimitsAssumption DEF Over
  <2> QED
    BY <1>7, <2>1
<1>10. Shape(t) /\ Viewed(t) /\ IsFiniteSet(DOMAIN t.map)
  BY <1>6 DEF Sound, Viewed
<1>11. PICK es \in SUBSET eligible : u = Without(t, es)
  BY <1>4, <1>10, EvictsEligible DEF u
<1>12. Dropped(t, u, es)
  BY <1>4, <1>10, <1>11, WithoutDrops
<1>13. Exact(u) /\ Candidates(u) = Candidates(t) \ es
  BY <1>4, <1>8, <1>10, <1>11, <1>12, DroppedExact
<1>14. \A d \in Candidates(u) : u.map[d].bytes = t.map[d].bytes
  BY <1>12 DEF Dropped, Candidates
<1>15. ~Over(u, "candidates")
  BY <1>8, <1>9, <1>10, <1>13, <1>14, FewerFit
<1> QED
  BY <1>1, <1>13, <1>15

\* Counters do not see certificates: t has the bodies of s, as vouched.
Alike(s, t) ==
    /\ DOMAIN t.map = DOMAIN s.map
    /\ \A d \in DOMAIN s.map : /\ t.map[d].bytes = s.map[d].bytes
                               /\ vouched(t.map[d]) <=> vouched(s.map[d])
    /\ t.bytes = s.bytes /\ t.candidates = s.candidates /\ t.candidateBytes = s.candidateBytes

\* So a store alike another is as exact and as far within its cap.
LEMMA AlikeExact ==
    ASSUME NEW s, Exact(s), NEW t, Alike(s, t)
    PROVE  Exact(t) /\ (~Over(s, "candidates") => ~Over(t, "candidates"))
<1>1. Candidates(t) = Candidates(s) /\ Candidates(s) \subseteq DOMAIN s.map
  BY DEF Alike, Candidates
<1>2. Bytes(t, DOMAIN s.map) = Bytes(s, DOMAIN s.map)
  BY BytesSame DEF Alike
<1>3. Bytes(t, Candidates(s)) = Bytes(s, Candidates(s))
  BY <1>1, BytesSame DEF Alike
<1>4. Exact(t)
  BY <1>1, <1>2, <1>3 DEF Alike, Exact
<1>5. ~Over(s, "candidates") => ~Over(t, "candidates")
  BY DEF Over, Alike
<1> QED
  BY <1>4, <1>5

\* A body comes in.
LEMMA InsertAccounts ==
    ASSUME NEW s, Accounted(s), NEW d \in Digests, NEW b \in Contents, NEW verified \in BOOLEAN,
           ~(d \in DOMAIN s.map /\ s.map[d].verified)
    PROVE  Accounted(insert(s, d, b, verified))
<1> DEFINE u == Arrived(s, d, b, verified)
           block == Arrives(s, d, b, verified)
           t == insert(s, d, b, verified)
           c == IF d \in DOMAIN s.map THEN take(s, d) ELSE [s EXCEPT !.arrival = Append(@, d)]
<1>1. Sound(s) /\ Exact(s) /\ Ranged(s) /\ Shape(s) /\ Viewed(s)
  BY DEF Accounted, Sound
<1>2. t = enforce_caps(u) /\ u = add(c, d, block)
  BY DEF insert, Arrived, Arrives
<1>3. Sound(t) /\ Same(s, t)
  BY <1>1, InsertFacts
<1>4. Shape(u) /\ Same(s, u) /\ u.map = Filed(s.map, d, block)
  BY <1>1, ArrivedFields
<1>5. block \in Block /\ block.view = Placed(s, d).view
  BY <1>1, PlacedFacts DEF Arrives, Block
<1>6. Placed(s, d).view \in Digests
  <2>1. d \in DOMAIN s.map => s.map[d].view \in Digests
    BY <1>1 DEF Ranged
  <2>2. d \in DOMAIN s.certified_digests => s.certified_digests[d] \in Digests
    BY <1>1 DEF Ranged
  <2>3. s.certified_view \in Digests
    BY <1>1 DEF Ranged
  <2> QED
    BY <2>1, <2>2, <2>3 DEF Placed, Larger
<1>7. Shape(c) /\ Viewed(c) /\ Exact(c) /\ d \notin DOMAIN c.map
  <2>1. CASE d \in DOMAIN s.map
    <3>1. c = take(s, d)
      BY <2>1
    <3>2. Dropped(s, take(s, d), {d}) /\ Shape(take(s, d)) /\ Same(s, take(s, d))
          /\ take(s, d).map = Restrict(s.map, DOMAIN s.map \ {d})
      BY <1>1, <2>1, TakeDrops, TakeFields
    <3> HIDE DEF c
    <3>3. Exact(c) /\ d \notin DOMAIN c.map
      <4>1. {d} \in SUBSET DOMAIN s.map /\ Dropped(s, c, {d})
        BY <2>1, <3>1, <3>2
      <4> QED
        BY <1>1, <4>1, DroppedExact DEF Dropped
    <3>4. DOMAIN c.map = DOMAIN s.map \ {d} /\ c.map = [e \in DOMAIN c.map |-> s.map[e]]
      BY <3>1, <3>2 DEF Restrict
    <3>5. IsFiniteSet(DOMAIN c.map)
      BY <1>1, <3>4, FS_RemoveElement DEF Viewed
    <3>6. Viewed(c)
      BY <1>1, <3>1, <3>2, <3>4, <3>5 DEF Viewed, Same
    <3> QED
      BY <3>1, <3>2, <3>3, <3>6
  <2>2. CASE d \notin DOMAIN s.map
    <3>1. c = [s EXCEPT !.arrival = Append(@, d)]
      BY <2>2
    <3> HIDE DEF c
    <3>2. Shape(c) /\ Same(s, c) /\ c.map = s.map /\ c.bytes = s.bytes
          /\ c.candidates = s.candidates /\ c.candidateBytes = s.candidateBytes
      BY <1>1, <3>1 DEF Shape, Fields, Same
    <3>3. Alike(s, c)
      BY <3>2 DEF Alike
    <3>4. Exact(c)
      BY <1>1, <3>3, AlikeExact
    <3> QED
      BY <1>1, <2>2, <3>2, <3>4 DEF Viewed, Same
  <2> QED
    BY <2>1, <2>2
<1>8. Exact(u)
  <2> HIDE DEF c, block, u
  <2> QED
    BY <1>2, <1>5, <1>7, AddExact
<1> HIDE DEF u, block, t, c
<1>9. /\ DOMAIN u.map = DOMAIN s.map \cup {d} /\ u.map[d] = block
      /\ u.map = [e \in DOMAIN u.map |-> u.map[e]]
      /\ \A e \in DOMAIN s.map : e # d => u.map[e] = s.map[e]
  BY <1>4 DEF Filed
<1>10. Sound(u)
  <2>1. Viewed(u)
    <3>1. IsFiniteSet(DOMAIN u.map)
      BY <1>1, <1>9, FS_AddElement DEF Viewed
    <3> QED
      BY <1>1, <1>4, <1>5, <1>9, <3>1 DEF Viewed, Same
  <2>2. Remembered(u)
    BY <1>1, <1>4, <1>5, <1>9, PlacedFacts DEF Sound, Remembered, Same, block, Arrives
  <2> QED
    BY <1>4, <2>1, <2>2 DEF Sound
<1>11. Exact(t) /\ ~Over(t, "candidates") /\ Thinned(u, t, floor(u))
  BY <1>2, <1>8, <1>10, CapsAccount, CapsThin
<1>12. Ranged(t)
  <2>1. \A e \in DOMAIN t.map : e \in DOMAIN u.map /\ t.map[e] = u.map[e]
    BY <1>11 DEF Thinned
  <2>2. \A e \in DOMAIN u.map : e \in Digests /\ u.map[e].view \in Digests
    BY <1>1, <1>5, <1>6, <1>9 DEF Ranged
  <2> QED
    BY <1>1, <1>3, <2>1, <2>2 DEF Ranged, Same
<1> QED
  BY <1>3, <1>11, <1>12 DEF Accounted, t

\* Digests are finitely many naturals, and contain the larger of two.
LEMMA DigestFacts ==
    /\ Digests \subseteq Nat /\ IsFiniteSet(Digests) /\ 0 \in Digests
    /\ \A v \in Views : v \in Digests
    /\ \A v, w \in Digests : Larger(v, w) \in Digests
<1>1. MaxView \in Nat
  BY LimitsAssumption
<1>2. IsFiniteSet(Digests)
  BY <1>1, FS_Interval DEF Digests
<1> QED
  BY <1>1, <1>2 DEF Digests, Views, Larger

\* A certificate's view is noted.
LEMMA NoteAccounts ==
    ASSUME NEW s, Accounted(s), NEW view \in Digests
    PROVE  Accounted(note_certificate(s, view))
<1> DEFINE t == note_certificate(s, view)
<1>1. Sound(s) /\ Exact(s) /\ Ranged(s) /\ Shape(s) /\ Viewed(s) /\ view \in Nat
  BY DigestFacts DEF Accounted, Sound
<1>2. Sound(t)
  BY <1>1, NoteFacts
<1>3. /\ t.certified_view = Larger(s.certified_view, view)
      /\ t.certified_digests = s.certified_digests /\ t.finalized_view = s.finalized_view
      /\ t.map = IF s.certified_view = 0 /\ view > 0
                 THEN [d \in DOMAIN s.map |-> [s.map[d] EXCEPT !.view = Larger(@, view)]]
                 ELSE s.map
  BY <1>1, NoteFields
<1>4. t.bytes = s.bytes /\ t.candidates = s.candidates /\ t.candidateBytes = s.candidateBytes
  BY <1>1 DEF note_certificate, Shape, Fields
<1> HIDE DEF t
<1>5. \A d \in DOMAIN s.map : s.map[d] \in Block /\ s.map[d].view \in Digests
  BY <1>1 DEF Viewed, Ranged
<1>6. /\ DOMAIN t.map = DOMAIN s.map
      /\ \A d \in DOMAIN s.map : /\ t.map[d].bytes = s.map[d].bytes
                                 /\ t.map[d].verified = s.map[d].verified
                                 /\ t.map[d].certified = s.map[d].certified
                                 /\ t.map[d].view \in Digests
  <2>1. CASE s.certified_view = 0 /\ view > 0
    <3>1. t.map = [d \in DOMAIN s.map |-> [s.map[d] EXCEPT !.view = Larger(@, view)]]
      BY <1>3, <2>1
    <3>2. \A d \in DOMAIN s.map : Larger(s.map[d].view, view) \in Digests
      BY <1>5, DigestFacts
    <3> QED
      BY <1>5, <3>1, <3>2 DEF Block
  <2>2. CASE ~(s.certified_view = 0 /\ view > 0)
    BY <1>3, <1>5, <2>2
  <2> QED
    BY <2>1, <2>2
<1>7. Alike(s, t)
  BY <1>4, <1>6 DEF Alike, vouched
<1>8. Ranged(t)
  <2>1. t.certified_view \in Digests
    BY <1>1, <1>3, DigestFacts DEF Ranged
  <2>2. t.finalized_view \in 0 .. t.certified_view
    BY <1>1, <1>3, DigestFacts DEF Ranged, Larger
  <2> QED
    BY <1>1, <1>3, <1>6, <2>1, <2>2 DEF Ranged
<1>9. Exact(t) /\ ~Over(t, "candidates")
  BY <1>1, <1>7, AlikeExact DEF Accounted
<1> QED
  BY <1>2, <1>8, <1>9 DEF Accounted, t

\* One more digest is remembered, and the oldest goes over the limit.
LEMMA NewestBounded ==
    ASSUME NEW ds, IsFiniteSet(ds), Cardinality(ds) <= MaxBlocks, NEW d,
           NEW known, DOMAIN known = ds \cup {d}, NEW digests \in Newest(known)
    PROVE  Cardinality(DOMAIN digests) <= MaxBlocks
<1>1. /\ IsFiniteSet(ds \cup {d}) /\ Cardinality(ds) \in Nat /\ Cardinality(ds \cup {d}) \in Nat
      /\ Cardinality(ds \cup {d}) <= MaxBlocks + 1
  <2>1. /\ IsFiniteSet(ds \cup {d})
        /\ Cardinality(ds \cup {d}) = IF d \in ds THEN Cardinality(ds) ELSE Cardinality(ds) + 1
    BY FS_AddElement
  <2>2. Cardinality(ds) \in Nat
    BY FS_CardinalityType
  <2> QED
    BY <2>1, <2>2, LimitsAssumption
<1>2. CASE Cardinality(DOMAIN known) <= MaxBlocks
  BY <1>2 DEF Newest
<1>3. CASE ~(Cardinality(DOMAIN known) <= MaxBlocks)
  <2>1. PICK e \in DOMAIN known : digests = Restrict(known, DOMAIN known \ {e})
    BY <1>3 DEF Newest
  <2>2. DOMAIN digests = DOMAIN known \ {e}
    BY <2>1 DEF Restrict
  <2>3. Cardinality(DOMAIN known \ {e}) = Cardinality(DOMAIN known) - 1
    BY <1>1, FS_RemoveElement
  <2> QED
    BY <1>1, <2>2, <2>3, LimitsAssumption
<1> QED
  BY <1>2, <1>3

\* A held body is marked.
LEMMA MarkAccounts ==
    ASSUME NEW s, Shape(s), Viewed(s), Exact(s), Ranged(s), ~Over(s, "candidates"),
           NEW d \in Digests, NEW view \in Digests
    PROVE  /\ Exact(Marked(s, d, view)) /\ Ranged(Marked(s, d, view))
           /\ ~Over(Marked(s, d, view), "candidates")
<1> DEFINE t == Marked(s, d, view)
<1>1. CASE d \notin DOMAIN s.map
  BY <1>1 DEF Marked
<1>2. CASE d \in DOMAIN s.map
  <2> DEFINE block == [s.map[d] EXCEPT !.certified = TRUE, !.view = Larger(@, view)]
             c == take(s, d)
  <2>1. s.map[d] \in Block /\ s.map[d].view \in Digests
    BY <1>2 DEF Viewed, Ranged
  <2>2. /\ block \in Block /\ block.certified = TRUE /\ block.view \in Digests
    <3> DEFINE old == s.map[d]
               first == [old EXCEPT !.certified = TRUE]
               high == Larger(old.view, view)
    <3>1. first \in Block /\ first.certified = TRUE /\ first.view = old.view
      BY <2>1 DEF Block
    <3>2. high \in Digests /\ high \in Nat
      BY <2>1, DigestFacts
    <3>3. block = [first EXCEPT !.view = high]
      OBVIOUS
    <3> HIDE DEF old, first, high, block
    <3> QED
      BY <3>1, <3>2, <3>3 DEF Block
  <2>3. t = add(c, d, block)
    BY <1>2 DEF Marked
  <2>4. Shape(c) /\ Same(s, c) /\ c.map = Restrict(s.map, DOMAIN s.map \ {d})
    BY TakeFields
  <2>5. Dropped(s, c, {d})
    BY <1>2, TakeDrops
  <2> HIDE DEF t, c, block
  <2>6. Exact(c) /\ Candidates(c) = Candidates(s) \ {d} /\ d \notin DOMAIN c.map
    <3>1. {d} \in SUBSET DOMAIN s.map
      BY <1>2
    <3> QED
      BY <2>5, <3>1, DroppedExact DEF Dropped
  <2>7. DOMAIN c.map = DOMAIN s.map \ {d} /\ c.map = [e \in DOMAIN c.map |-> s.map[e]]
    BY <2>4 DEF Restrict
  <2>8. Viewed(c)
    <3>1. IsFiniteSet(DOMAIN c.map)
      BY <2>7, FS_RemoveElement DEF Viewed
    <3> QED
      BY <2>4, <2>7, <3>1 DEF Viewed, Same
  <2>9. vouched(block)
    BY <2>2 DEF vouched
  <2>10. Exact(t) /\ Candidates(t) = Candidates(s) \ {d}
    <3>1. /\ Exact(t)
          /\ Candidates(t) = Candidates(c) \cup (IF vouched(block) THEN {} ELSE {d})
      BY <2>2, <2>3, <2>4, <2>6, <2>8, AddExact
    <3> QED
      BY <2>6, <2>9, <3>1
  <2>11. Shape(t) /\ Same(c, t) /\ t.map = Filed(c.map, d, block)
    BY <2>3, <2>4, AddFields
  <2>12. /\ DOMAIN t.map = DOMAIN s.map /\ t.map[d] = block
         /\ \A e \in DOMAIN s.map : e # d => t.map[e] = s.map[e]
    BY <1>2, <2>7, <2>11 DEF Filed
  <2>13. Ranged(t)
    BY <2>2, <2>4, <2>11, <2>12 DEF Ranged, Same
  <2>14. \A e \in Candidates(t) : t.map[e].bytes = s.map[e].bytes
    BY <2>10, <2>12 DEF Candidates
  <2>15. ~Over(t, "candidates")
    BY <2>10, <2>14, FewerFit
  <2> QED
    BY <2>10, <2>13, <2>15 DEF t
<1> QED
  BY <1>1, <1>2

\* A certificate comes in.
LEMMA CertifyAccounts ==
    ASSUME NEW s, Accounted(s), NEW d \in Digests, NEW view \in Digests \cup {NoView},
           NEW t \in certify(s, d, view)
    PROVE  Accounted(t)
<1> DEFINE noted == IF view = NoView THEN s ELSE note_certificate(s, view)
           at == IF view = NoView THEN noted.certified_view ELSE view
           known == Known(noted.certified_digests, d, at)
<1>1. Sound(t)
  BY CertifyFacts, DigestFacts DEF Accounted
<1>2. Accounted(noted)
  BY NoteAccounts
<1>3. at \in Digests
  BY <1>2 DEF Accounted, Ranged
<1>4. PICK digests \in Newest(known) :
         t = Marked([noted EXCEPT !.certified_digests = digests], d, at)
  BY DEF certify, Known
<1> DEFINE m == [noted EXCEPT !.certified_digests = digests]
<1> HIDE DEF noted, at
<1>5. Sound(noted) /\ Shape(noted) /\ Viewed(noted) /\ Exact(noted) /\ Ranged(noted)
      /\ ~Over(noted, "candidates")
  BY <1>2 DEF Accounted, Sound
<1>6. /\ DOMAIN known = DOMAIN noted.certified_digests \cup {d}
      /\ known = [e \in DOMAIN known |-> known[e]]
      /\ \A e \in DOMAIN known : known[e] \in Digests
  <2>1. \A e \in DOMAIN noted.certified_digests :
           noted.certified_digests[e] \in Digests /\ Larger(noted.certified_digests[e], at) \in Digests
    BY <1>3, <1>5, DigestFacts DEF Ranged
  <2> QED
    BY <1>3, <2>1 DEF Known
<1> HIDE DEF known
<1>7. /\ DOMAIN digests \subseteq DOMAIN known
      /\ digests = [e \in DOMAIN digests |-> known[e]]
  BY <1>4, <1>6, NewestFacts
<1>8. Cardinality(DOMAIN digests) <= MaxBlocks
  <2>1. /\ IsFiniteSet(DOMAIN noted.certified_digests)
        /\ Cardinality(DOMAIN noted.certified_digests) <= MaxBlocks
    BY <1>5, DigestFacts, FS_Subset DEF Ranged
  <2> QED
    BY <1>4, <1>6, <2>1, NewestBounded
<1>9. /\ Shape(m) /\ m.map = noted.map /\ m.certified_digests = digests
      /\ m.certified_view = noted.certified_view /\ m.held_view = noted.held_view
      /\ m.finalized_view = noted.finalized_view /\ m.bytes = noted.bytes
      /\ m.candidates = noted.candidates /\ m.candidateBytes = noted.candidateBytes
  BY <1>5 DEF Shape, Fields
<1>10. t = Marked(m, d, at)
  BY <1>4
<1> HIDE DEF m
<1>11. Exact(m) /\ ~Over(m, "candidates")
  <2>1. Alike(noted, m)
    BY <1>9 DEF Alike
  <2> QED
    BY <1>5, <2>1, AlikeExact
<1>12. \A e \in DOMAIN digests : e \in Digests /\ digests[e] \in Digests
  BY <1>5, <1>6, <1>7 DEF Ranged
<1>13. Ranged(m)
  BY <1>5, <1>8, <1>9, <1>12 DEF Ranged
<1>14. Viewed(m)
  <2>1. \A e \in DOMAIN digests : digests[e] \in Nat
    BY <1>12, DigestFacts
  <2> QED
    BY <1>5, <1>7, <1>9, <2>1 DEF Viewed
<1>15. Exact(t) /\ Ranged(t) /\ ~Over(t, "candidates")
  BY <1>3, <1>9, <1>10, <1>11, <1>13, <1>14, MarkAccounts
<1> QED
  BY <1>1, <1>15 DEF Accounted

\* A finalization drops what is below the window.
LEMMA FinalizeAccounts ==
    ASSUME NEW s, Accounted(s), NEW view \in Digests, NEW held \in Nat \cup {NoView}
    PROVE  Accounted(finalize(s, view, held))
<1> DEFINE n == note_certificate(s, view)
           noted == [n EXCEPT !.held_view = held]
           low == below(view, held)
           kept == {d \in DOMAIN noted.certified_digests : noted.certified_digests[d] >= low}
           stale == {d \in DOMAIN noted.map : noted.map[d].view < low}
           u == Without(noted, stale)
           v == [u EXCEPT !.finalized_view = view, !.certified_digests = Restrict(@, kept)]
           t == finalize(s, view, held)
<1>1. Accounted(n) /\ view <= n.certified_view
  BY NoteAccounts, NoteFacts, DigestFacts DEF Accounted
<1>2. Sound(t)
  BY FinalizeFacts, DigestFacts DEF Accounted
<1>3. t = noted \/ t = v
  BY DEF finalize
<1> HIDE DEF n
<1>4. Sound(n) /\ Shape(n) /\ Viewed(n) /\ Exact(n) /\ Ranged(n) /\ ~Over(n, "candidates")
  BY <1>1 DEF Accounted, Sound
<1>5. /\ Shape(noted) /\ noted.map = n.map /\ noted.certified_view = n.certified_view
      /\ noted.certified_digests = n.certified_digests /\ noted.held_view = held
      /\ noted.finalized_view = n.finalized_view /\ noted.bytes = n.bytes
      /\ noted.candidates = n.candidates /\ noted.candidateBytes = n.candidateBytes
  BY <1>4 DEF Shape, Fields
<1> HIDE DEF noted
<1>6. Viewed(noted) /\ Ranged(noted)
  BY <1>4, <1>5 DEF Viewed, Ranged
<1>7. Exact(noted) /\ ~Over(noted, "candidates")
  <2>1. Alike(n, noted)
    BY <1>5 DEF Alike
  <2> QED
    BY <1>4, <2>1, AlikeExact
<1>8. CASE t = noted
  BY <1>2, <1>6, <1>7, <1>8 DEF Accounted
<1>9. CASE t = v
  <2>1. stale \in SUBSET DOMAIN noted.map /\ kept \in SUBSET DOMAIN noted.certified_digests
    OBVIOUS
  <2> HIDE DEF stale, kept
  <2>2. Shape(u) /\ Same(noted, u) /\ Dropped(noted, u, stale)
    BY <1>5, <2>1, WithoutFields, WithoutDrops
  <2> HIDE DEF u
  <2>3. Exact(u) /\ Candidates(u) = Candidates(noted) \ stale
    BY <1>6, <1>7, <2>1, <2>2, DroppedExact
  <2>4. /\ v.map = u.map /\ v.certified_view = u.certified_view
        /\ v.certified_digests = Restrict(u.certified_digests, kept)
        /\ v.finalized_view = view /\ v.bytes = u.bytes
        /\ v.candidates = u.candidates /\ v.candidateBytes = u.candidateBytes
    BY <2>2 DEF Shape, Fields
  <2> HIDE DEF v
  <2>5. Exact(v) /\ Candidates(v) = Candidates(u)
    <3>1. Alike(u, v) /\ Candidates(v) = Candidates(u)
      BY <2>4 DEF Alike, Candidates
    <3> QED
      BY <2>3, <3>1, AlikeExact
  <2>6. \A d \in Candidates(v) : v.map[d].bytes = noted.map[d].bytes
    BY <2>2, <2>4 DEF Candidates, Dropped
  <2>7. ~Over(v, "candidates")
    BY <1>6, <1>7, <2>3, <2>5, <2>6, FewerFit
  <2>8. DOMAIN v.certified_digests = kept
        /\ \A d \in kept : v.certified_digests[d] = noted.certified_digests[d]
    BY <2>2, <2>4 DEF Restrict, Same
  <2>9. Cardinality(kept) <= MaxBlocks
    <3>1. IsFiniteSet(DOMAIN noted.certified_digests)
      BY <1>6, DigestFacts, FS_Subset DEF Ranged
    <3>2. Cardinality(kept) <= Cardinality(DOMAIN noted.certified_digests)
          /\ Cardinality(kept) \in Nat /\ Cardinality(DOMAIN noted.certified_digests) \in Nat
      BY <2>1, <3>1, FS_Subset, FS_CardinalityType
    <3> QED
      BY <1>6, <3>2, LimitsAssumption DEF Ranged
  <2>10. Ranged(v)
    <3>1. v.certified_view \in Digests /\ v.finalized_view \in 0 .. v.certified_view
      BY <1>1, <1>5, <1>6, <2>2, <2>4, DigestFacts DEF Ranged, Same
    <3>2. DOMAIN v.map \subseteq Digests /\ \A d \in DOMAIN v.map : v.map[d].view \in Digests
      BY <1>6, <2>2, <2>4 DEF Ranged, Dropped
    <3> QED
      BY <1>6, <2>1, <2>8, <2>9, <3>1, <3>2 DEF Ranged
  <2> QED
    BY <1>2, <1>9, <2>5, <2>7, <2>10 DEF Accounted
<1> QED
  BY <1>3, <1>8, <1>9

\* What is accounted for, with the digests of the run queued and reported.
AInv == Accounted(store) /\ pending \subseteq Digests /\ report.view \in Digests

\* A host starts with its counters exact.
LEMMA InitAInv == Init => AInv
<1> SUFFICES ASSUME Init PROVE AInv
  OBVIOUS
<1>1. Sound(Empty)
  BY EmptySound
<1>2. /\ DOMAIN Empty.map = {} /\ DOMAIN Empty.certified_digests = {}
      /\ Empty.bytes = 0 /\ Empty.candidates = 0 /\ Empty.candidateBytes = 0
      /\ Empty.certified_view = 0 /\ Empty.finalized_view = 0
  BY DEF Empty
<1>3. Accounted(Empty)
  <2>1. Candidates(Empty) = {} /\ Octets(Empty, {}) = {} /\ Cardinality({}) = 0
    BY <1>2, FS_EmptySet DEF Candidates, Octets
  <2>2. Exact(Empty)
    BY <1>2, <2>1 DEF Exact, Bytes
  <2>3. Ranged(Empty)
    BY <1>2, <2>1, DigestFacts, LimitsAssumption DEF Ranged
  <2>4. ~Over(Empty, "candidates")
    BY <1>2, LimitsAssumption DEF Over
  <2> QED
    BY <1>1, <2>2, <2>3, <2>4 DEF Accounted
<1>4. report.view = 0
  BY DEF Init, NoReport
<1>5. CASE store = Empty /\ pending = {}
  BY <1>3, <1>4, <1>5, DigestFacts DEF AInv
<1>6. ASSUME NEW b \in Bodies[0], NEW verified \in BOOLEAN,
             store \in certify(insert(Empty, 0, b, verified), 0, NoView), pending = {0}
      PROVE  AInv
  <2> DEFINE s == insert(Empty, 0, b, verified)
  <2>1. Accounted(s)
    BY <1>2, <1>3, NaturalViews, DigestFacts, InsertAccounts
  <2> HIDE DEF s
  <2>2. Accounted(store)
    BY <1>6, <2>1, DigestFacts, CertifyAccounts DEF s
  <2> QED
    BY <1>4, <1>6, <2>2, DigestFacts DEF AInv
<1> QED
  BY <1>5, <1>6 DEF Init

\* Every step keeps them exact.
LEMMA NextAInv == IInv /\ AInv /\ [Next]_vars => AInv'
<1> SUFFICES ASSUME IInv, AInv, [Next]_vars PROVE AInv'
  OBVIOUS
<1>1. /\ Accounted(store) /\ pending \subseteq Digests /\ report.view \in Digests
      /\ pending \subseteq Nat /\ report.held \in Nat \cup {NoView}
      /\ \A v \in Views : v \in Digests
      /\ report \in [at : {"none", "certified", "queued", "asked"}, view : Nat,
                     held : Nat \cup {NoView}]
  BY DigestFacts DEF AInv, IInv, Holds
<1>2. ASSUME NEW d \in Views, NEW b \in Bodies[d], put(d, b) \/ seal(d, b) PROVE AInv'
  <2>1. PICK verified \in BOOLEAN : store' = insert(store, d, b, verified)
    BY <1>2 DEF put, seal
  <2>2. /\ ~(d \in DOMAIN store.map /\ store.map[d].verified)
        /\ UNCHANGED <<pending, report>> /\ b \in Contents
    BY <1>2, NaturalViews DEF put, seal, sealed
  <2>3. Accounted(store')
    BY <1>1, <2>1, <2>2, InsertAccounts
  <2> QED
    BY <1>1, <2>2, <2>3 DEF AInv
<1>3. ASSUME NEW v \in Views, certified(v) PROVE AInv'
  <2>1. store' \in certify(store, v, v) /\ UNCHANGED <<pending, report>>
    BY <1>3 DEF certified
  <2>2. Accounted(store')
    BY <1>1, <2>1, CertifyAccounts
  <2> QED
    BY <1>1, <2>1, <2>2 DEF AInv
<1>4. ASSUME NEW v \in Views, observe_certificate(v) PROVE AInv'
  <2>1. store' = note_certificate(store, v) /\ UNCHANGED <<pending, report>>
    BY <1>4 DEF observe_certificate
  <2>2. Accounted(store')
    BY <1>1, <2>1, NoteAccounts
  <2> QED
    BY <1>1, <2>1, <2>2 DEF AInv
<1>5. ASSUME NEW v \in Views, ReportFinalization(v) PROVE AInv'
  <2>1. /\ store' \in certify(store, v, v) /\ UNCHANGED pending /\ report'.view = v
    BY <1>5 DEF ReportFinalization, NoReport
  <2>2. Accounted(store')
    BY <1>1, <2>1, CertifyAccounts
  <2> QED
    BY <1>1, <2>1, <2>2 DEF AInv
<1>6. CASE on_finalized
  BY <1>1, <1>6 DEF on_finalized, AInv
<1>7. CASE AskHold
  BY <1>1, <1>7 DEF AskHold, AInv
<1>8. CASE finalized
  <2>1. /\ store' = finalize(store, report.view, report.held) /\ UNCHANGED pending
        /\ report'.view = 0
    BY <1>8 DEF finalized, NoReport
  <2>2. Accounted(store')
    BY <1>1, <2>1, FinalizeAccounts
  <2> QED
    BY <1>1, <2>1, <2>2, DigestFacts DEF AInv
<1>9. CASE Deliver
  BY <1>1, <1>9 DEF Deliver, AInv
<1>10. CASE UNCHANGED vars
  BY <1>1, <1>10 DEF vars, AInv
<1> QED
  BY <1>2, <1>3, <1>4, <1>5, <1>6, <1>7, <1>8, <1>9, <1>10 DEF Next

\* Every reachable store is accounted for.
THEOREM AccountsInvariance == Spec => []AInv
BY InitAInv, NextAInv, Invariance, PTL DEF Spec

\* The running counters are what the map holds and never go below zero, the
\* candidates and the remembered digests stay within their caps, and certificates
\* name views of the run, in whatever order bodies are inserted, replaced,
\* certified, evicted and finalized (Blocks).
THEOREM StoreSafe == Spec => []StoreInv
<1>1. ASSUME IInv, AInv PROVE StoreInv
  <2>1. Viewed(store) /\ Exact(store) /\ Ranged(store) /\ ~Over(store, "candidates")
    BY <1>1 DEF AInv, Accounted, Sound
  <2>2. CountersExact
    BY <2>1 DEF Exact, Candidates, CountersExact
  <2>3. CandidatesBounded
    BY <2>1 DEF CandidatesBounded, Ranged
  <2>4. store.bytes \in Nat /\ store.candidates \in Nat /\ store.candidateBytes \in Nat
    <3>1. DOMAIN store.map \in SUBSET DOMAIN store.map /\ Candidates(store) \in SUBSET DOMAIN store.map
      BY DEF Candidates
    <3>2. /\ Bytes(store, DOMAIN store.map) \in Nat /\ Bytes(store, Candidates(store)) \in Nat
          /\ IsFiniteSet(Candidates(store))
      BY <2>1, <3>1, OctetsFinite
    <3> QED
      BY <2>1, <3>2, FS_CardinalityType DEF Exact
  <2>5. \A d \in DOMAIN store.map :
           store.map[d] \in [bytes : Contents, verified : BOOLEAN, certified : BOOLEAN, view : Digests]
    <3>1. \A d \in DOMAIN store.map : store.map[d] \in Block /\ store.map[d].view \in Digests
      BY <2>1 DEF Viewed, Ranged
    <3> QED
      BY <3>1 DEF Block
  <2>6. pending \subseteq Digests /\ settled \subseteq pending
    BY <1>1 DEF AInv, IInv, Holds
  <2>7. TypeOK
    BY <2>1, <2>4, <2>5, <2>6 DEF TypeOK, Ranged
  <2> QED
    BY <2>2, <2>3, <2>7 DEF StoreInv
<1> QED
  BY <1>1, Invariance, AccountsInvariance, PTL
=============================================================================
