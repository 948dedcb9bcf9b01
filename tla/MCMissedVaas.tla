---------------------------- MODULE MCMissedVaas ----------------------------
(* Constant values for model checking MissedVaas.                          *)
EXTENDS MissedVaas

NoneFiltered == {}
FilterTwo == {2}

NoStart == {None}
NoStartOrTwo == {None, 2}

Never == {FALSE}
EitherWay == {TRUE, FALSE}
=============================================================================
