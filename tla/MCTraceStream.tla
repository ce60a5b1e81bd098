--------------------------- MODULE MCTraceStream ---------------------------
(* TraceStream for TLC.                                                    *)
EXTENDS TraceStream

\* Picked is the filter of the library, on every sequence of up to four elements.
ASSUME PickedIsSelectSeq ==
    \A s \in SeqOf(1..3, 4) : \A kept \in SUBSET (1..3) :
        Picked(s, {i \in DOMAIN s : s[i] \in kept}) = SelectSeq(s, LAMBDA e : e \in kept)
=============================================================================
