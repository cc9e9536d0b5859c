----------------------------- MODULE MCChatTurn -----------------------------
(* Small instances of ChatTurn for TLC.                                    *)
EXTENDS ChatTurn

CONSTANTS a, b

TwoMessages == {a, b}
=============================================================================
