---------------------------- MODULE MCRpcServer -----------------------------
(***************************************************************************)
(* RpcServer over two applications of one account: one submits plainly,    *)
(* the other has its transactions wrapped in fee bumps another account     *)
(* pays for.                                                               *)
(***************************************************************************)
EXTENDS RpcServer, MCClassicTx

Wrapped(e, h, bump) ==
  LET inner == Rehashed(e, h)
  IN  [inner EXCEPT !.feeSource = "a", !.bumpHash = bump, !.bumpFee = 40,
                    !.bumpSigs = <<Sig("a", bump)>>]

MCJobs == [plain |-> {Plain, Second},
           bumper |-> {Wrapped(Plain, "h3", "b1"), Wrapped(Second, "h4", "b2")}]
MCEnvelopes == UNION {MCJobs[c] : c \in DOMAIN MCJobs}
OnlyRich == {Rich}
MCFriendbot == Rich
=============================================================================
