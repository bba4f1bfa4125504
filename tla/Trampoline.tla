----------------------------- MODULE Trampoline -----------------------------
(***************************************************************************)
(* CreateTrampolineFunction of the bundled MinHook, in its 32-bit build:   *)
(* the first instructions of a function are copied into a slot of memory   *)
(* until the five bytes of a long jump are free, relative branches are     *)
(* rewritten, and a jump back to the rest of the function completes it.    *)
(*                                                                         *)
(* A function is a record: its instructions, how many bytes of padding     *)
(* follow the last of them, and whether five bytes of executable padding   *)
(* precede it.  An instruction has its kind, its length and, for a branch, *)
(* the offset it goes to (Outside when that is not in the function).       *)
(* Offsets are in bytes from the start of the function.                    *)
(***************************************************************************)
EXTENDS Integers, Sequences, SequencesExt

Outside == -1

\* Sizes of the jumps the library writes, of a slot, and the entries of oldIPs and newIPs.
JMP_REL == 5
JMP_REL_SHORT == 2
JCC_REL == 6
TRAMPOLINE_MAX_SIZE == 32
MAX_IPS == 8

Branches == {"jmp", "jcc", "loop"}
Operations == Branches \cup {"plain", "call", "ret", "bad"}

\* A destination inside the bytes that the patch will overwrite.
Internal(ins) == ins.op \in Branches /\ ins.to \in 0 .. JMP_REL - 1
Far(ins) == ins.op \in Branches /\ ~Internal(ins)

\* The length of the copy: a branch that leaves the copied part takes its long form.
CopySize(ins) ==
    CASE ins.op = "call" -> JMP_REL
      [] ins.op = "jmp" /\ Far(ins) -> JMP_REL
      [] ins.op = "jcc" /\ Far(ins) -> JCC_REL
      [] OTHER -> ins.len

Begin == [state |-> "copying", old |-> 0, new |-> 0, jmpDest |-> 0, ips |-> <<>>]

CopyOneStretched(s, ins) ==
    LET back == s.old >= JMP_REL
        size == IF back THEN JMP_REL ELSE CopySize(ins)
    IN  [state |-> IF back \/ ins.op = "ret" THEN "finished" ELSE "copying",
         old |-> s.old + ins.len, new |-> s.new + size, jmpDest |-> 0,
         ips |-> Append(s.ips, [old |-> s.old, new |-> s.new])]

(* One pass of the copying loop.                                           *)
CopyOne(s, ins) ==
    LET back == s.old >= JMP_REL
        dest == IF ~back /\ Internal(ins) /\ ins.to > s.jmpDest THEN ins.to ELSE s.jmpDest
        size == IF back THEN JMP_REL ELSE CopySize(ins)
        leaves == ins.op = "ret" \/ (ins.op = "jmp" /\ Far(ins))
        refused == \/ ins.op = "bad"
                   \/ ~back /\ ins.op = "loop" /\ Far(ins)
                   \/ s.old < dest /\ size # ins.len
                   \/ s.new + size > TRAMPOLINE_MAX_SIZE
                   \/ Len(s.ips) >= MAX_IPS
    IN  IF refused THEN [s EXCEPT !.state = "refused"]
        ELSE [state |-> IF back \/ (leaves /\ s.old >= s.jmpDest) THEN "finished" ELSE "copying",
              old |-> s.old + ins.len,
              new |-> s.new + size,
              jmpDest |-> dest,
              ips |-> Append(s.ips, [old |-> s.old, new |-> s.new])]

Pass(s, ins) == IF s.state = "copying" THEN CopyOne(s, ins) ELSE s

\* The loop after each of the instructions of p.
Copying(p) ==
    LET s[n \in 0 .. Len(p.ins)] == IF n = 0 THEN Begin ELSE Pass(s[n - 1], p.ins[n])
    IN  s

Copy(p) == Copying(p)[Len(p.ins)]

\* Is there enough place for a jump of n bytes?  Padding follows the last instruction.
Place(p, s, n) == s.old >= n \/ (Len(s.ips) = Len(p.ins) /\ p.pad >= n - s.old)

(* What the function reports: whether it succeeded, the instruction        *)
(* boundaries on both sides, and whether the long jump goes above.         *)
CreateTrampoline(p) ==
    LET s == Copy(p)
        patchAbove == ~Place(p, s, JMP_REL)
    IN  [ok |-> /\ s.state = "finished"
                /\ patchAbove => Place(p, s, JMP_REL_SHORT) /\ p.above,
         ips |-> s.ips,
         patchAbove |-> patchAbove]

-----------------------------------------------------------------------------
(* What the processor does with either text.                               *)

Offsets(p) ==
    LET o[i \in 1 .. Len(p.ins) + 1] == IF i = 1 THEN 0 ELSE o[i - 1] + p.ins[i - 1].len
    IN  o

OffsetOf(p, i) == Offsets(p)[i]
Boundaries(p) == {OffsetOf(p, i) : i \in DOMAIN p.ins}
InsAt(p, o) == p.ins[CHOOSE i \in DOMAIN p.ins : OffsetOf(p, i) = o]

(* What MinHook works on: code in which a branch into the copied part goes *)
(* to one of its instructions.                                             *)
WellFormed(p) ==
    /\ p.ins \in Seq([op : Operations, len : Nat \ {0}, to : Int])
    /\ \A i \in DOMAIN p.ins : Internal(p.ins[i]) => p.ins[i].to \in Boundaries(p)

\* Where control goes from an instruction at offset o whose branches go to d.
Follow(ins, o, d) ==
    CASE ins.op = "ret" -> {Outside}
      [] ins.op = "jmp" -> {d}
      [] ins.op \in {"jcc", "loop"} -> {o + ins.len, d}
      [] OTHER -> {o + ins.len}

\* In the function itself.
Successors(p, o) == Follow(InsAt(p, o), o, InsAt(p, o).to)

\* In the trampoline, from the copy at entry k of the boundaries ips: to an offset of the trampoline
\* ("copy") or of the function ("own").  A rewritten branch holds the address; a copied one
\* keeps its displacement.
CopiedNext(p, ips, k) ==
    LET at == ips[k]
        ins == InsAt(p, at.old)
        after == <<"copy", at.new + CopySize(ins)>>
        target == IF Internal(ins) THEN <<"copy", at.new + ins.to - at.old>>
                  ELSE <<"own", ins.to>>
    IN  IF at.old >= JMP_REL THEN {<<"own", at.old>>}
        ELSE CASE ins.op = "ret" -> {<<"own", Outside>>}
               [] ins.op = "jmp" -> {target}
               [] ins.op \in {"jcc", "loop"} -> {after, target}
               [] OTHER -> {after}

\* The same as offsets of the function; an offset that is no boundary stands for nothing.
CopiedSuccessors(p, k) ==
    LET ips == Copy(p).ips
        own(n) == IF n[1] = "own" THEN {n[2]}
                  ELSE {ips[j].old : j \in {j \in DOMAIN ips : ips[j].new = n[2]}}
    IN  UNION {own(n) : n \in CopiedNext(p, ips, k)}

(* A branch back inside the copied part, over an instruction whose copy is *)
(* longer, is copied with its old displacement all the same: the test for  *)
(* a changed length looks only at instructions after the branch.           *)
BackOverLonger(p) ==
    \E i \in DOMAIN p.ins : Internal(p.ins[i]) /\
        \E j \in 1 .. i - 1 : /\ OffsetOf(p, j) >= p.ins[i].to
                              /\ CopySize(p.ins[j]) # p.ins[j].len

(* A branch from behind the copied part into the bytes after the first one *)
(* that a jump can overwrite: the copying loop does not read that far.     *)
BackInto(p) ==
    \E i \in DOMAIN p.ins : /\ p.ins[i].op \in Branches /\ p.ins[i].to \in 1 .. JMP_REL - 1
                            /\ OffsetOf(p, i) >= JMP_REL

Unforeseen(p) == BackOverLonger(p) \/ BackInto(p)

(* The trampoline of p does what the copied part of p does: control goes   *)
(* from the copy of an instruction where it goes from the instruction.     *)
Faithful(p) ==
    CreateTrampoline(p).ok =>
        \A k \in DOMAIN Copy(p).ips :
            LET o == Copy(p).ips[k].old IN
            CopiedSuccessors(p, k) = IF o >= JMP_REL THEN {o} ELSE Successors(p, o)
=============================================================================
