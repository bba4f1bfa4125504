----------------------------- MODULE MCMinHook ------------------------------
(* A function f with any of the programs, a function g with a short body.  *)
EXTENDS MinHook, TLC

Interchangeable == Permutations(Blocks)

I(op, len, to) == [op |-> op, len |-> len, to |-> to]
Plain(len) == I("plain", len, Outside)
Ret == I("ret", 1, Outside)
Function(ins, pad, above) == [ins |-> ins, pad |-> pad, above |-> above]
Long(ins) == Function(ins \o <<Plain(3), Plain(1), Ret>>, 0, FALSE)

CONSTANTS f, g

MCPrograms(tg) ==
    IF tg = g THEN {Function(<<Plain(2), Ret>>, 0, TRUE)} ELSE
    { Long(<<Plain(1), Plain(2)>>),
      Long(<<I("call", 5, Outside)>>),
      Long(<<I("jcc", 2, Outside), Plain(2)>>),
      Long(<<I("jcc", 2, 3), Ret, Plain(3)>>),
      Long(<<I("jcc", 2, 4), I("jcc", 2, Outside)>>),
      Long(<<Plain(1), I("loop", 2, 0)>>),
      Long(<<I("loop", 2, Outside)>>),
      Long(<<I("jcc", 2, Outside), I("jmp", 2, 0)>>),
      Function(<<Plain(1), Ret>>, 0, TRUE),
      Function(<<Plain(1), Ret>>, 3, FALSE),
      Function(<<Ret>>, 0, TRUE),
      Function(<<Plain(3), Plain(2), I("jmp", 2, 3)>>, 0, FALSE) }
=============================================================================
