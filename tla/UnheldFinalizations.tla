------------------------- MODULE UnheldFinalizations ------------------------
(***************************************************************************)
(* GLOBAL finalizations an archive learned from their certificate, before  *)
(* their bodies (unheld_finalization.rs), and the proposals and votes that *)
(* wait for them (cw_global_seams.rs).                                     *)
(*                                                                         *)
(* On an archive whose publication ingests application frames, executing a *)
(* finalized frame privately before it publishes yields another prover     *)
(* root.  A proposal or vote therefore asks, in two critical sections with *)
(* the hand-over of arrived bodies between them, whether a finalization at *)
(* or below its parent is still without a body, and then whether finalized *)
(* frames wait to publish.  The proposer and the voter ask concurrently.   *)
(*                                                                         *)
(* Views number the finalized chain: the frame of view v is v-th on it.    *)
(***************************************************************************)
EXTENDS Integers, FiniteSets, FiniteSetsExt

CONSTANTS
    Callers,    \* the proposer and the voter
    MaxView,    \* bound: views of the run
    Kept,       \* UNHELD_KEPT
    MaxAhead,   \* GlobalFinalizationLimits::max_ahead
    Sent        \* by view: the bytes peers may send for its digest

Views == 1 .. MaxView
Bytes == {"good", "bad"}        \* bad: refused by finalize_body

ASSUME UnheldAssumption ==
    /\ MaxView \in Nat /\ Kept \in Nat \ {0} /\ MaxAhead \in Nat \ {0}
    /\ Sent \in [Views -> SUBSET Bytes]

VARIABLES
    body,       \* by view: the bytes the block store holds for its digest
    reading,    \* the report in progress: a view and the bytes read for it
    reported,   \* views whose finalization has been reported
    entries,    \* UnheldFinalizations::entries
    refused,    \* by view: its entry's last refused bytes
    expired,    \* entries older than the patience
    queued,     \* views the pipeline holds for publication
    finalized,  \* GlobalParentExecutor::finalized
    canonical,  \* views written canonically, beyond the admission window
    published,  \* the highest view published
    givenUp,    \* reports no entry or queue remembers
    call        \* by caller: the proposal or vote in progress

vars == <<body, reading, reported, entries, refused, expired, queued, finalized, canonical,
          published, givenUp, call>>

Idle == [at |-> "idle", parent |-> 0, known |-> {}, now |-> {}, work |-> {},
         taken |-> {}, spurned |-> {}]
NoReport == [view |-> 0, bytes |-> "none"]

-----------------------------------------------------------------------------
(* The finalizer                                                           *)

\* A body of v arrives over the block channel.  Unsealed bytes are replaceable.
BodyArrives(v, b) ==
    /\ body[v] # b
    /\ body' = [body EXCEPT ![v] = b]
    /\ UNCHANGED <<reading, reported, entries, refused, expired, queued, finalized, canonical,
                   published, givenUp, call>>

Latest == Max({published} \cup canonical)

admits(v) == v > Latest /\ v - Latest <= MaxAhead

\* What finalize_body may answer for bytes b: bad ones are refused, and beyond
\* the admission window the canonical write of a frame not yet stored may fail.
finalize_body(v, b) ==
    IF b = "bad" THEN {FALSE}
    ELSE IF admits(v) \/ v <= published \/ v \in canonical THEN {TRUE} ELSE BOOLEAN

\* A body finalize_body accepts is queued and noted, or written canonically.
Take(v) ==
    IF admits(v) THEN /\ queued' = queued \cup {v}
                      /\ finalized' = IF v > finalized THEN v ELSE finalized
                      /\ UNCHANGED canonical
    ELSE /\ canonical' = IF v > published THEN canonical \cup {v} ELSE canonical
         /\ UNCHANGED <<queued, finalized>>

\* The reporter reads the store before it calls the finalizer.  The engine may
\* report an older view after a later one.
ReadBody(v) ==
    /\ reading = NoReport
    /\ v \notin reported
    /\ reading' = [view |-> v, bytes |-> body[v]]
    /\ UNCHANGED <<body, reported, entries, refused, expired, queued, finalized, canonical,
                   published, givenUp, call>>

\* Mutant: the newest entry goes over the limit.
Note_newest(v) ==
    LET all == entries \cup {v}
        over == IF Cardinality(all) > Kept THEN {Min(all)} ELSE {}
    IN  /\ entries' = IF over = {} THEN all ELSE entries
        /\ givenUp' = givenUp \cup over
        /\ UNCHANGED <<queued, finalized, canonical>>

\* on_finalized without bytes: note, and the oldest entry goes over the limit.
Note(v) ==
    LET all == entries \cup {v}
        over == IF Cardinality(all) > Kept THEN {Min(all)} ELSE {}
    IN  /\ entries' = all \ over
        /\ givenUp' = givenUp \cup over
        /\ UNCHANGED <<queued, finalized, canonical>>

\* on_finalized.  Bytes not taken are dropped without an entry.
OnFinalized ==
    LET v == reading.view IN
    /\ reading # NoReport
    /\ \/ reading.bytes = "none" /\ Note(v)
       \/ /\ reading.bytes # "none" /\ TRUE \in finalize_body(v, reading.bytes)
          /\ Take(v)
          /\ UNCHANGED <<entries, givenUp>>
       \/ /\ reading.bytes # "none" /\ FALSE \in finalize_body(v, reading.bytes)
          /\ givenUp' = givenUp \cup {v}
          /\ UNCHANGED <<entries, queued, finalized, canonical>>
    /\ reported' = reported \cup {v}
    /\ reading' = NoReport
    /\ UNCHANGED <<body, refused, expired, published, call>>

\* UNHELD_PATIENCE passes for an entry.
PatienceEnds(v) ==
    /\ v \in entries \ expired
    /\ expired' = expired \cup {v}
    /\ UNCHANGED <<body, reading, reported, entries, refused, queued, finalized, canonical,
                   published, givenUp, call>>

\* The worker publishes the next frame: queued here, written canonically, or
\* fetched by the archive poller.
Publish ==
    /\ \E v \in reported : published < v
    /\ published' = published + 1
    /\ queued' = queued \ {published + 1}
    /\ UNCHANGED <<body, reading, reported, entries, refused, expired, finalized, canonical,
                   givenUp, call>>

-----------------------------------------------------------------------------
(* A proposal or vote on a parent                                          *)

\* The entries left after those at or below the published head end.
published_through(es) == {v \in es : v > published}

\* The entries at or below the parent with a body not yet refused, and it.
arrived(p, es) ==
    {<<v, body[v]>> : v \in {u \in es : u <= p /\ body[u] # "none" /\ body[u] # refused[u]}}

\* await_unheld, under the first lock.  Consensus builds on every finalized
\* frame, so the parent is at or above the last report.
Begin(c, p) ==
    LET left == published_through(entries) IN
    /\ call[c].at = "idle"
    /\ \A v \in reported : v <= p
    /\ p > published
    /\ entries' = left
    /\ call' = [call EXCEPT ![c] =
          IF entries = {} THEN [Idle EXCEPT !.at = "sequenced", !.parent = p, !.known = reported]
          ELSE [at |-> "bodies", parent |-> p, known |-> reported, now |-> expired,
                work |-> arrived(p, left), taken |-> {}, spurned |-> {}]]
    /\ UNCHANGED <<body, reading, reported, refused, expired, queued, finalized, canonical,
                   published, givenUp>>

\* finalize_body for the next body found, without the lock.
HandOver(c) ==
    /\ call[c].at = "bodies"
    /\ \E w \in call[c].work :
          /\ \A x \in call[c].work : w[1] <= x[1]
          /\ \/ /\ TRUE \in finalize_body(w[1], w[2])
                /\ Take(w[1])
                /\ call' = [call EXCEPT ![c].work = @ \ {w}, ![c].taken = @ \cup {w[1]}]
             \/ /\ FALSE \in finalize_body(w[1], w[2])
                /\ call' = [call EXCEPT ![c].work = @ \ {w}, ![c].spurned = @ \cup {w}]
                /\ UNCHANGED <<queued, finalized, canonical>>
    /\ UNCHANGED <<body, reading, reported, entries, refused, expired, published, givenUp>>

\* Mutant: an entry at the parent's own view does not hold the call.
decide_below(p, es, now) == {v \in es : v < p /\ v \notin now}

\* Mutant: the wait outlives the patience.
decide_forever(p, es, now) == {v \in es : v <= p}

\* The entries the call waits for: at or below the parent, within patience.
decide(p, es, now) == {v \in es : v <= p /\ v \notin now}

\* Mutant: every body handed over ends its entry, refused or not.
Taken_any(k) == k.taken \cup {w[1] : w \in k.spurned}

\* The finalizations whose bodies the finalizer took.
Taken(k) == k.taken

\* await_unheld, under the second lock: taken and refused, then the decision.
\* A call that waits returns and is made again.
Decide(c) ==
    LET k == call[c]
        left == entries \ Taken(k)
    IN  /\ k.at = "bodies" /\ k.work = {}
        /\ entries' = left
        /\ refused' = [v \in Views |->
              IF v \in left /\ \E b \in Bytes : <<v, b>> \in k.spurned
              THEN CHOOSE b \in Bytes : <<v, b>> \in k.spurned ELSE refused[v]]
        /\ call' = [call EXCEPT ![c] =
              IF decide(k.parent, left, k.now) # {} THEN Idle
              ELSE [Idle EXCEPT !.at = "sequenced", !.parent = k.parent, !.known = k.known]]
        /\ UNCHANGED <<body, reading, reported, expired, queued, finalized, canonical, published,
                       givenUp>>

sequenced_publication_wait(p) == p > published /\ finalized > published

\* await_sequenced_publication, then the execution of the parent.
Execute(c) ==
    /\ call[c].at = "sequenced"
    /\ call' = [call EXCEPT ![c] = IF sequenced_publication_wait(@.parent) THEN Idle
                                   ELSE [@ EXCEPT !.at = "executing"]]
    /\ UNCHANGED <<body, reading, reported, entries, refused, expired, queued, finalized,
                   canonical, published, givenUp>>

\* The execution ends.
Return(c) ==
    /\ call[c].at = "executing"
    /\ call' = [call EXCEPT ![c] = Idle]
    /\ UNCHANGED <<body, reading, reported, entries, refused, expired, queued, finalized,
                   canonical, published, givenUp>>

-----------------------------------------------------------------------------
Init ==
    /\ body = [v \in Views |-> "none"]
    /\ reading = NoReport
    /\ reported = {} /\ entries = {} /\ expired = {} /\ queued = {} /\ canonical = {}
    /\ refused = [v \in Views |-> "none"]
    /\ finalized = 0 /\ published = 0
    /\ givenUp = {}
    /\ call = [c \in Callers |-> Idle]

Finalizer == (\E v \in Views : ReadBody(v)) \/ OnFinalized

Caller(c) == HandOver(c) \/ Decide(c) \/ Execute(c) \/ Return(c)

Next ==
    \/ \E v \in Views : \E b \in Sent[v] : BodyArrives(v, b)
    \/ Finalizer
    \/ \E v \in Views : PatienceEnds(v)
    \/ Publish
    \/ \E c \in Callers : Caller(c) \/ \E p \in Views : Begin(c, p)

Spec == Init /\ [][Next]_vars

(***************************************************************************)
(* Time passes, a report that began ends, the worker publishes a frame it  *)
(* holds, and propose_retry and the deferred vote ask again while the view *)
(* lasts.  Nothing obliges a missing body to arrive by either route.       *)
(***************************************************************************)
PublishHeld == published + 1 \in queued \cup canonical /\ Publish

LiveSpec ==
    /\ Spec
    /\ WF_vars(OnFinalized)
    /\ WF_vars(PublishHeld)
    /\ \A v \in Views : WF_vars(PatienceEnds(v))
    /\ \A c \in Callers : WF_vars(Caller(c)) /\ WF_vars(\E p \in Views : Begin(c, p))

-----------------------------------------------------------------------------
(* Properties                                                              *)

Store == Bytes \cup {"none"}

\* Only a reported finalization is pending, queued or written, and a call works
\* only on bodies the store really held (arrived).
TypeOK ==
    /\ body \in [Views -> Store] /\ refused \in [Views -> Store]
    /\ reading \in [view : 0 .. MaxView, bytes : Store]
    /\ reported \subseteq Views /\ entries \subseteq reported /\ expired \subseteq reported
    /\ queued \subseteq reported /\ canonical \subseteq reported /\ givenUp \subseteq reported
    /\ finalized \in 0 .. MaxView /\ published \in 0 .. MaxView
    /\ \A c \in Callers :
          /\ call[c].at \in {"idle", "bodies", "sequenced", "executing"}
          /\ call[c].known \cup call[c].now \subseteq reported
          /\ call[c].work \cup call[c].spurned \subseteq reported \X Bytes
          /\ call[c].taken \subseteq reported

\* No proposal or vote executes a parent privately above a frame whose
\* finalization was reported before it asked and that has not published,
\* unless the wait for its body ran out of patience, the table overflowed, its
\* stored body was not taken at the report, or it lay beyond the admission window.
NoPrivateExecution ==
    \A c \in Callers : call[c].at = "executing" =>
        \A v \in call[c].known :
            v <= published \/ v \in expired \/ v \in givenUp \/ v \in canonical

\* A finalization reported without its body stays pending until its frame
\* publishes or the pipeline holds its body: refused bytes never end it.
NothingForgotten ==
    \A v \in reported :
        v <= published \/ v \in entries \/ v \in queued \/ v \in givenUp \/ v \in canonical

\* The table of finalizations without a body (UnheldFinalizations, await_unheld):
\* its entries are reported views, and no report is lost between the two locks.
EntriesInv == TypeOK /\ NothingForgotten

\* A queued frame waits to publish above one this archive does not hold.
Gap == finalized > published /\ published + 1 \notin queued \cup canonical

\* A body that never arrives costs its patience, never a refusal: a proposal or
\* vote in the end executes, unless a frame queued above the missing one cannot
\* publish until the poller supplies it.
CallsProceed == \A c \in Callers : []<>(call[c].at = "executing" \/ published = MaxView \/ Gap)

=============================================================================
