----------------------------- MODULE MCPhoneLink -----------------------------
(* Instances of PhoneLink for TLC. *)
EXTENDS PhoneLink

CONSTANTS dflt, ctl, none, other

(* A window beyond the limit, which is clamped to half the numbers. *)
WideLsp == [ok |-> TRUE, window |-> SeqMod, retrans |-> 0, sid |-> ctl]
(* A window of nothing, raised to 1, and no control session announced. *)
BareLsp == [ok |-> TRUE, window |-> 0, retrans |-> 2, sid |-> none]
(* A payload decode_lsp rejects. *)
UnreadableLsp == [ok |-> FALSE, window |-> 1, retrans |-> 1, sid |-> ctl]

AllLsps == {WideLsp, BareLsp, UnreadableLsp}
=============================================================================
