----------------------------- MODULE BlockStore -----------------------------
(***************************************************************************)
(* The bounded digest-to-body store a consensus host shares between peer   *)
(* ingress, the automaton, the reporter and the finalizer that takes       *)
(* finalized bodies in order (quil-cw-consensus/src/adapters.rs).          *)
(*                                                                         *)
(* The block of view v has digest v; digest 0 is a block of an earlier     *)
(* session, replayed from its record before the host starts.  Operators    *)
(* carry the store's lock-protected state as a record and are named for    *)
(* the methods of `Blocks'; each action is one locked section.             *)
(***************************************************************************)
EXTENDS Integers, Sequences, FiniteSets, FiniteSetsExt, Functions

CONSTANTS
    MaxView,            \* bound: views of the run
    Contents, Size,     \* the bodies, and their lengths
    Bodies,             \* the bodies peers may send under each digest
    KeepViews, ProtectedViews, MaxBlocks, MaxBytes,     \* BlockStoreLimits
    MaxCandidateBlocks, MaxCandidateBytes

Views == 1 .. MaxView
Digests == 0 .. MaxView

ASSUME LimitsAssumption ==
    /\ {MaxView, KeepViews, ProtectedViews, MaxBlocks, MaxBytes,
        MaxCandidateBlocks, MaxCandidateBytes} \subseteq Nat
    /\ Size \in [Contents -> Nat]
    /\ Bodies \in [Digests -> SUBSET Contents]

VARIABLES
    store,      \* Blocks
    pending,    \* digests the finalizer still has to take
    report,     \* the finalization the reporter is delivering
    settled     \* pending digests the last completed report's hold covered

vars == <<store, pending, report, settled>>

NoView == -1
NoReport == [at |-> "none", view |-> 0, held |-> NoView]

\* max(0, a - b)
SaturatingSub(a, b) == IF a >= b THEN a - b ELSE 0
Larger(a, b) == IF a >= b THEN a ELSE b
Smaller(a, b) == IF a <= b THEN a ELSE b

-----------------------------------------------------------------------------
(* Blocks                                                                  *)

vouched(block) == block.verified \/ block.certified

\* A held block enters the counters as a candidate unless it is vouched for.
add(s, d, block) ==
    LET weight == IF vouched(block) THEN 0 ELSE 1 IN
    [s EXCEPT !.map = [e \in DOMAIN @ \cup {d} |-> IF e = d THEN block ELSE @[e]],
              !.bytes = @ + Size[block.bytes],
              !.candidates = @ + weight,
              !.candidateBytes = @ + weight * Size[block.bytes]]

take(s, d) ==
    LET block == s.map[d]
        weight == IF vouched(block) THEN 0 ELSE 1
    IN  [s EXCEPT !.map = Restrict(@, DOMAIN @ \ {d}),
                  !.bytes = @ - Size[block.bytes],
                  !.candidates = @ - weight,
                  !.candidateBytes = @ - weight * Size[block.bytes]]

\* The bytes of the bodies held under ds, each a place in a body, and their number.
Octets(s, ds) == UNION {{d} \X (1 .. Size[s.map[d].bytes]) : d \in ds}
Bytes(s, ds) == Cardinality(Octets(s, ds))

\* The order of arrival of the blocks other than ds.
Others(s, ds) == SelectSeq(s.arrival, LAMBDA d : d \notin ds)

\* The blocks of ds are taken out, one after another, whichever is first.
Without(s, ds) ==
    LET candidates == {d \in ds : ~vouched(s.map[d])} IN
    [s EXCEPT !.map = Restrict(@, DOMAIN @ \ ds),
              !.arrival = Others(s, ds),
              !.bytes = @ - Bytes(s, ds),
              !.candidates = @ - Cardinality(candidates),
              !.candidateBytes = @ - Bytes(s, candidates)]

\* The order of eviction: candidates before vouched blocks, then the lowest
\* view, then the earliest arrival.
EvictedBefore(s, d, e) ==
    LET rank(x) == <<IF vouched(s.map[x]) THEN 1 ELSE 0, s.map[x].view,
                     CHOOSE i \in DOMAIN s.arrival : s.arrival[i] = x>>
        a == rank(d)
        b == rank(e)
    IN  \E i \in 1 .. 3 : a[i] < b[i] /\ \A j \in 1 .. i - 1 : a[j] = b[j]

\* The two caps, in blocks and bytes: of the candidates, and of everything.
Over(s, cap) ==
    \/ cap = "candidates" /\ (s.candidates > MaxCandidateBlocks \/ s.candidateBytes > MaxCandidateBytes)
    \/ cap = "total" /\ (Cardinality(DOMAIN s.map) > MaxBlocks \/ s.bytes > MaxBytes)

\* Evict the first of the eligible until the store is within the cap, or none is
\* left: the loop takes the shortest initial segment that is enough.
Evict(s, eligible, cap) ==
    LET segments == {ds \in SUBSET eligible :
                        \A d \in ds, e \in eligible \ ds : EvictedBefore(s, d, e)}
        enough == {ds \in segments : ~Over(Without(s, ds), cap)}
    IN  Without(s, IF enough = {} THEN eligible
                   ELSE CHOOSE ds \in enough :
                           \A es \in enough : Cardinality(ds) <= Cardinality(es))

\* Mutant: the held window does not lower the floor.
floor_unheld(s) == SaturatingSub(s.certified_view, ProtectedViews)

\* Below it a vouched block may be evicted over a cap.
floor(s) ==
    LET latest == SaturatingSub(s.certified_view, ProtectedViews) IN
    IF s.held_view = NoView THEN latest
    ELSE Smaller(latest, SaturatingSub(s.held_view, KeepViews))

\* Mutant: candidates have no cap of their own.
enforce_caps_total_only(s) ==
    Evict(s, {d \in DOMAIN s.map : ~vouched(s.map[d]) \/ s.map[d].view < floor(s)}, "total")

enforce_caps(s) ==
    LET t == Evict(s, {d \in DOMAIN s.map : ~vouched(s.map[d])}, "candidates") IN
    Evict(t, {d \in DOMAIN t.map : ~vouched(t.map[d]) \/ t.map[d].view < floor(t)}, "total")

\* Mutant: a late body is filed without the certificate that named it.
Placed_uncertified(s, d) ==
    IF d \in DOMAIN s.map
    THEN [view |-> Larger(s.map[d].view, s.certified_view), certified |-> s.map[d].certified]
    ELSE [view |-> s.certified_view, certified |-> FALSE]

\* The view and certification a body stored under d starts with.
Placed(s, d) ==
    IF d \in DOMAIN s.map
    THEN [view |-> Larger(s.map[d].view, s.certified_view), certified |-> s.map[d].certified]
    ELSE IF d \in DOMAIN s.certified_digests
    THEN [view |-> Larger(s.certified_view, s.certified_digests[d]), certified |-> TRUE]
    ELSE [view |-> s.certified_view, certified |-> FALSE]

\* Mutant: the bytes replaced stay in the counters.
insert_over(s, d, b, verified) ==
    LET placed == Placed(s, d)
        block == [bytes |-> b, verified |-> verified, certified |-> placed.certified,
                  view |-> placed.view]
        cleared == IF d \in DOMAIN s.map THEN s ELSE [s EXCEPT !.arrival = Append(@, d)]
    IN  enforce_caps(add(cleared, d, block))

\* A digest held already keeps its place in the order of arrival.
insert(s, d, b, verified) ==
    LET placed == Placed(s, d)
        block == [bytes |-> b, verified |-> verified, certified |-> placed.certified,
                  view |-> placed.view]
        cleared == IF d \in DOMAIN s.map THEN take(s, d)
                   ELSE [s EXCEPT !.arrival = Append(@, d)]
    IN  enforce_caps(add(cleared, d, block))

\* Blocks held before any certificate take the first view one names.
note_certificate(s, view) ==
    [s EXCEPT !.map = IF s.certified_view = 0 /\ view > 0
                      THEN [d \in DOMAIN @ |-> [s.map[d] EXCEPT !.view = Larger(@, view)]] ELSE @,
              !.certified_view = Larger(@, view)]

\* The certified digests with the oldest dropped over the limit.
Newest(digests) ==
    IF Cardinality(DOMAIN digests) <= MaxBlocks THEN {digests}
    ELSE {Restrict(digests, DOMAIN digests \ {d}) :
             d \in {e \in DOMAIN digests : \A f \in DOMAIN digests : digests[e] <= digests[f]}}

\* A held block the certificate names is taken out, marked and added again.
Marked(s, d, view) ==
    IF d \notin DOMAIN s.map THEN s
    ELSE add(take(s, d), d, [s.map[d] EXCEPT !.certified = TRUE, !.view = Larger(@, view)])

\* certify: the stores it may leave (which of two oldest digests is dropped is
\* the hash map's choice).
certify(s, d, view) ==
    LET noted == IF view = NoView THEN s ELSE note_certificate(s, view)
        at == IF view = NoView THEN noted.certified_view ELSE view
        known == [e \in DOMAIN noted.certified_digests \cup {d} |->
                     IF e \notin DOMAIN noted.certified_digests THEN at
                     ELSE IF e = d THEN Larger(noted.certified_digests[e], at)
                     ELSE noted.certified_digests[e]]
    IN  {Marked([noted EXCEPT !.certified_digests = digests], d, at) : digests \in Newest(known)}

\* The lowest view kept.
below(view, held) ==
    SaturatingSub(IF held = NoView THEN view ELSE Smaller(held, view), KeepViews)

finalize(s, view, held) ==
    LET noted == [note_certificate(s, view) EXCEPT !.held_view = held]
        low == below(view, held)
        kept == {d \in DOMAIN noted.certified_digests : noted.certified_digests[d] >= low}
        stale == {d \in DOMAIN noted.map : noted.map[d].view < low}
    IN  IF view <= s.finalized_view THEN noted
        ELSE [Without(noted, stale) EXCEPT !.finalized_view = view,
                                           !.certified_digests = Restrict(@, kept)]

-----------------------------------------------------------------------------
(* The store's users                                                       *)

sealed(d) == d \in DOMAIN store.map /\ store.map[d].verified

\* Peer ingress stores a candidate.
put(d, b) ==
    /\ ~sealed(d)
    /\ store' = insert(store, d, b, FALSE)
    /\ UNCHANGED <<pending, report, settled>>

\* The automaton seals the bytes it built or validated.
seal(d, b) ==
    /\ ~sealed(d)
    /\ store' = insert(store, d, b, TRUE)
    /\ UNCHANGED <<pending, report, settled>>

\* Reporter: a notarization, certification or nullification.
certified(v) ==
    /\ report.at = "none"
    /\ store' \in certify(store, v, v)
    /\ UNCHANGED <<pending, report, settled>>

observe_certificate(v) ==
    /\ report.at = "none"
    /\ store' = note_certificate(store, v)
    /\ UNCHANGED <<pending, report, settled>>

\* Reporter: a finalization, in whatever order the engine learns of them and
\* perhaps again.  The block is certified, then the finalizer queues
\* it, then the store asks the finalizer for its lowest view and finalizes; each
\* takes its own lock.
ReportFinalization(v) ==
    /\ report.at = "none"
    /\ store' \in certify(store, v, v)
    /\ report' = [NoReport EXCEPT !.at = "certified", !.view = v]
    /\ UNCHANGED <<pending, settled>>

on_finalized ==
    /\ report.at = "certified"
    /\ pending' = pending \cup {report.view}
    /\ report' = [report EXCEPT !.at = "queued"]
    /\ UNCHANGED <<store, settled>>

\* AppSeamFinalizer::held_view: a replayed record holds everything.
held_view == IF pending = {} THEN NoView ELSE Min(pending)

AskHold ==
    /\ report.at = "queued"
    /\ report' = [report EXCEPT !.at = "asked", !.held = held_view]
    /\ UNCHANGED <<store, pending, settled>>

finalized ==
    /\ report.at = "asked"
    /\ store' = finalize(store, report.view, report.held)
    /\ settled' = pending
    /\ report' = NoReport
    /\ UNCHANGED pending

\* The finalizer delivers its lowest pending body and lets it go.
Deliver ==
    /\ pending # {}
    /\ Min(pending) \in DOMAIN store.map
    /\ pending' = pending \ {Min(pending)}
    /\ settled' = settled \ {Min(pending)}
    /\ UNCHANGED <<store, report>>

-----------------------------------------------------------------------------
Empty == [map |-> << >>, arrival |-> << >>, bytes |-> 0, candidates |-> 0, candidateBytes |-> 0,
          certified_view |-> 0, finalized_view |-> 0, certified_digests |-> << >>,
          held_view |-> NoView]

\* A host starts empty, or with a record of an earlier session replayed:
\* sealed or put, then recorded_final, then pending.
Init ==
    /\ \/ store = Empty /\ pending = {}
       \/ /\ \E b \in Bodies[0], verified \in BOOLEAN :
                store \in certify(insert(Empty, 0, b, verified), 0, NoView)
          /\ pending = {0}
    /\ report = NoReport
    /\ settled = {}

Next ==
    \/ \E d \in Views : \E b \in Bodies[d] : put(d, b) \/ seal(d, b)
    \/ \E v \in Views : certified(v) \/ observe_certificate(v) \/ ReportFinalization(v)
    \/ on_finalized \/ AskHold \/ finalized
    \/ Deliver

Spec == Init /\ [][Next]_vars

-----------------------------------------------------------------------------
(* Properties                                                              *)

\* The counters never go below zero and certificates only raise the views
\* (Blocks::take, note_certificate).
TypeOK ==
    /\ DOMAIN store.map \subseteq Digests
    /\ \A d \in DOMAIN store.map :
          store.map[d] \in [bytes : Contents, verified : BOOLEAN, certified : BOOLEAN, view : Digests]
    /\ store.bytes \in Nat /\ store.candidates \in Nat /\ store.candidateBytes \in Nat
    /\ store.certified_view \in Digests /\ store.finalized_view \in 0 .. store.certified_view
    /\ DOMAIN store.certified_digests \subseteq Digests
    /\ pending \subseteq Digests /\ settled \subseteq pending

\* The running counters equal what the map holds: no path changes a block's
\* standing past them, so `-=' never underflows and the caps mean what they say.
CountersExact ==
    LET candidates == {d \in DOMAIN store.map : ~vouched(store.map[d])}
    IN  /\ store.bytes = Bytes(store, DOMAIN store.map)
        /\ store.candidates = Cardinality(candidates)
        /\ store.candidateBytes = Bytes(store, candidates)

\* "A body that arrives after a certificate named it is stored as certified":
\* while the digest is remembered, whichever came first.
CertifiedRemembered ==
    \A d \in DOMAIN store.map \cap DOMAIN store.certified_digests :
        store.map[d].certified /\ store.map[d].view >= store.certified_digests[d]

\* Peers' deliveries cannot grow the store: candidates stay within their caps
\* at all times, and the remembered digests within theirs.
CandidatesBounded ==
    ~Over(store, "candidates") /\ Cardinality(DOMAIN store.certified_digests) <= MaxBlocks

\* The store's accounting: what the caps are enforced by is what is held, in
\* whatever order bodies are inserted, replaced, certified and evicted (Blocks).
StoreInv == TypeOK /\ CountersExact /\ CandidatesBounded

\* A verified or certified body the finalizer still has to take, and reported
\* to hold, is never dropped, by a cap or by the window, however late it is
\* taken.
PendingKept ==
    [][\A d \in DOMAIN store.map \ DOMAIN store'.map :
          d \in settled => ~vouched(store.map[d])]_vars

=============================================================================
