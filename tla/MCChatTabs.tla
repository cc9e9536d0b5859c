----------------------------- MODULE MCChatTabs -----------------------------
(* Small instances of ChatTabs for TLC.                                    *)
EXTENDS ChatTabs, TLC

CONSTANTS a, b, p, q, s1, s2, s3, r1, r2, r3

MCTab == {a, b}
MCProject == {p, q}
MCSaved == {s1, s2}
OneSaved == {s1}
TwoTranscripts == {s1, s3}
NoneSaved == {}
OneTranscript == {s3}
MCRequest == {r1, r2, r3}
TwoRequests == {r1, r2}
OneProject == {p}

Symmetry == Permutations(MCTab) \cup Permutations(MCProject)
              \cup Permutations(MCRequest)
=============================================================================
