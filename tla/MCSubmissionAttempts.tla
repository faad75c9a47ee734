------------------------ MODULE MCSubmissionAttempts ------------------------
EXTENDS SubmissionAttempts, TLC

\* Two tasks of every kind at one filter, across an epoch boundary.
Contention ==
    [filters : {{f} : f \in Filter}, kinds : {Kind}, guards : {Guard}, frames : {5}]

\* One task at a time, its filters published in separate chunks.
Chunks ==
    [filters : {Filter}, kinds : {{"Join", "Confirm"}}, guards : {{g} : g \in Guard}, frames : {3}]

MCScopes == Contention \cup Chunks
MCSymmetry == Permutations(Filter) \cup Permutations(Guard)
=============================================================================
