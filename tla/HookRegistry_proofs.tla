----------------------- MODULE HookRegistry_proofs -----------------------
(***************************************************************************)
(* Theorems about core/hooks.c, for every number of records, observers per *)
(* record, thunks, mods, threads and registrations, and any nesting of     *)
(* hooked calls; and about its chains of typed hooks (261-349), for any    *)
(* set of addresses and any number of hooks of one.                        *)
(***************************************************************************)
EXTENDS HookRegistry, TypedHooks, FiniteSetTheorems, SequenceTheorems, WellFoundedInduction, TLAPS

Cb == [used : BOOLEAN, native : BOOLEAN, ref : Ref \cup {0}, id : RegId \cup {0}]
HookRec == [used : BOOLEAN, tier : 0..2, va : VA \cup {NoVA}, cb : [Slot -> Cb]]
Handle == (Rec \X Slot) \cup {<<0, 0>>}
Registration == [mod : Mods \cup {"none"}, native : BOOLEAN, handle : Handle,
                 state : {"none", "live", "removed", "faulted"}, by : RegId \cup {0}]
Pass == [rec : Rec, va : VA, i : 1..MAX_CB+1, running : RegId \cup {0},
         called : SUBSET (RegId \cup {0}), due : SUBSET RegId]

Types ==
    /\ hk \in [Rec -> HookRec]
    /\ busy \in [Rec -> BOOLEAN]
    /\ thunks \in 0..MAX_THUNKS /\ flawed \subseteq VA
    /\ mh \in [VA -> [state : {"none", "created", "enabled"}, rec : Rec \cup {0}]]
    /\ nregs \in 0..MaxRegs
    /\ reg \in [RegId -> Registration]
    /\ refs \subseteq Ref
    /\ stack \in Seq(Pass)
    /\ wpc \in [Workers -> Rec \cup {0}]

\* No more references than registrations, so that luaL_ref always has one to give.
RefsFew == IsFiniteSet(refs) /\ Cardinality(refs) <= nregs

\* An observer that runs was registered, and called from a slot of its record.
FromSlot == \A k \in DOMAIN stack : /\ stack[k].running <= nregs
                                    /\ stack[k].running # 0 => stack[k].i \in Slot

\* A record MinHook leads an address to is one.
Led == \A va \in VA : mh[va].state # "none" => mh[va].rec \in Rec

\* The registrations made so far.
Given == \A n \in RegId :
            IF n <= nregs THEN /\ reg[n].state # "none" /\ reg[n].handle \in Rec \X Slot
                               /\ reg[n].mod \in Mods /\ reg[n].by <= nregs
                          ELSE reg[n].state = "none"

\* No slot names a registration that was not made.
Ids == \A r \in Rec, s \in Slot : hk[r].cb[s].id <= nregs

USE BoundsAssumption, NamesAssumption

LEMMA NewRefFree ==
  ASSUME Types, RefsFew, nregs < MaxRegs
  PROVE  NewRef \in Ref /\ NewRef \notin refs
<1>1. IsFiniteSet(Ref) /\ Cardinality(Ref) = MaxRegs
  BY FS_Interval DEF Ref
<1>2. Cardinality(refs) \in Nat
  BY FS_CardinalityType DEF RefsFew
<1>3. refs # Ref
  BY <1>1, <1>2 DEF Types, RefsFew
<1>4. \E r \in Ref : r \notin refs
  BY <1>3 DEF Types
<1>5. QED
  BY <1>4 DEF NewRef

\* alloc_rec gives the first record that is not in use, chain_free_slot the first slot.
LEMMA LeastOf ==
  ASSUME NEW S \in SUBSET Nat, S # {}
  PROVE  Least(S) \in S /\ \A x \in S : Least(S) <= x
<1> DEFINE R == OpToRel(<, Nat)
<1>1. PICK x \in S : \A y \in S : <<y, x>> \notin R
  <2>1. IsWellFoundedOn(R, Nat)
    BY NatLessThanWellFounded
  <2> HIDE DEF R
  <2>2. QED
    BY <2>1, WFMin
<1>2. \A y \in S : x <= y
  <2> SUFFICES ASSUME NEW y \in S, y < x PROVE FALSE
    OBVIOUS
  <2>1. <<y, x>> \in R
    BY DEF OpToRel
  <2>2. QED
    BY <1>1, <2>1
<1>3. QED
  BY <1>2 DEF Least

\* What a dispatch that begins, ends, or goes on does to the stack.
LEMMA StackIs ==
  ASSUME Types
  PROVE  /\ Len(stack) \in Nat /\ DOMAIN stack = 1..Len(stack)
         /\ \A k \in DOMAIN stack : stack[k] \in Pass
         /\ stack # <<>> => Len(stack) > 0 /\ Len(stack) \in DOMAIN stack
BY LenProperties, ElementOfSeq, EmptySeq DEF Types

LEMMA Pushed ==
  ASSUME Types, NEW p \in Pass, stack' = Append(stack, p)
  PROVE  /\ stack' \in Seq(Pass) /\ DOMAIN stack' = 1..Len(stack) + 1
         /\ stack'[Len(stack) + 1] = p
         /\ \A k \in DOMAIN stack : stack'[k] = stack[k]
BY StackIs DEF Types

LEMMA Popped ==
  ASSUME Types, stack # <<>>, stack' = Front(stack)
  PROVE  /\ stack' \in Seq(Pass) /\ DOMAIN stack' = 1..Len(stack) - 1
         /\ \A k \in DOMAIN stack' : stack'[k] = stack[k]
<1>1. stack' = SubSeq(stack, 1, Len(stack) - 1)
  BY DEF Front
<1>2. \A i \in 1..Len(stack) - 1 : stack[i] \in Pass
  BY StackIs
<1>3. /\ stack' \in Seq(Pass) /\ Len(stack') = Len(stack) - 1
      /\ \A k \in 1..Len(stack) - 1 : stack'[k] = stack[k]
  BY <1>1, <1>2, StackIs, SubSeqProperties
<1>4. QED
  BY <1>3, LenProperties

LEMMA TopChanged ==
  ASSUME Types, stack # <<>>, NEW p \in Pass, stack' = [stack EXCEPT ![Len(stack)] = p]
  PROVE  /\ stack' \in Seq(Pass) /\ DOMAIN stack' = DOMAIN stack
         /\ stack'[Len(stack)] = p
         /\ \A k \in DOMAIN stack : k # Len(stack) => stack'[k] = stack[k]
BY StackIs, ExceptSeq DEF Types

\* The record a new address gets, and the slot a new observer gets.
LEMMA Allocated ==
  ASSUME Types, NEW rec \in AllocRec
  PROVE  /\ rec \in Rec /\ ~hk[rec].used
         /\ \A r \in Rec : r < rec => hk[r].used
<1>1. {r \in Rec : ~hk[r].used} # {} /\ {r \in Rec : ~hk[r].used} \in SUBSET Nat
  BY DEF AllocRec, Rec
<1>2. rec = Least({r \in Rec : ~hk[r].used})
  BY <1>1 DEF AllocRec
<1>3. QED
  BY <1>1, <1>2, LeastOf DEF Rec

LEMMA SlotAllocated ==
  ASSUME NEW rec, NEW s \in FreeSlot(rec)
  PROVE  s \in Slot /\ ~hk[rec].cb[s].used
<1>1. {x \in Slot : ~hk[rec].cb[x].used} # {} /\ {x \in Slot : ~hk[rec].cb[x].used} \in SUBSET Nat
  BY DEF FreeSlot, Slot
<1>2. s = Least({x \in Slot : ~hk[rec].cb[x].used})
  BY <1>1 DEF FreeSlot
<1>3. QED
  BY <1>1, <1>2, LeastOf

LEMMA SlotNext ==
  ASSUME NextSlot # {}
  PROVE  /\ Least(NextSlot) \in Slot /\ hk[Top.rec].cb[Least(NextSlot)].used
         /\ Least(NextSlot) >= Top.i
<1>1. NextSlot \in SUBSET Nat
  BY DEF NextSlot, Slot
<1>2. QED
  BY <1>1, LeastOf DEF NextSlot

Basic == Types /\ RefsFew /\ FromSlot /\ Led /\ Given /\ Ids

LEMMA OneMore ==
  ASSUME NEW S, IsFiniteSet(S), NEW x, NEW n \in Nat, Cardinality(S) <= n
  PROVE  /\ IsFiniteSet(S \cup {x}) /\ Cardinality(S \cup {x}) <= n + 1
         /\ IsFiniteSet(S \ {x}) /\ Cardinality(S \ {x}) <= n
<1>1. Cardinality(S) \in Nat
  BY FS_CardinalityType
<1>2. /\ IsFiniteSet(S \cup {x})
      /\ Cardinality(S \cup {x}) = IF x \in S THEN Cardinality(S) ELSE Cardinality(S) + 1
  BY FS_AddElement, Zenon
<1>3. /\ IsFiniteSet(S \ {x})
      /\ Cardinality(S \ {x}) = IF x \in S THEN Cardinality(S) - 1 ELSE Cardinality(S)
  BY FS_RemoveElement, Zenon
<1>4. QED
  BY <1>1, <1>2, <1>3

LEMMA RegisteredIs ==
  ASSUME Basic, nregs < MaxRegs, NEW m \in Mods, NEW native \in BOOLEAN,
         NEW handle \in Rec \X Slot, Registered(m, native, handle)
  PROVE  /\ nregs' \in 0..MaxRegs /\ reg' \in [RegId -> Registration]
         /\ refs' \subseteq Ref /\ RefsFew'
<1>1. nregs + 1 \in RegId /\ nregs \in Nat /\ nregs' = nregs + 1
  BY DEF Basic, Types, RegId, Registered
<1>2. reg' \in [RegId -> Registration]
  BY <1>1 DEF Registered, Basic, Types, Registration, Handle
<1>3. refs' \subseteq Ref
  BY NewRefFree DEF Registered, Basic, Types
<1>4. IsFiniteSet(refs) /\ Cardinality(refs) <= nregs /\ Cardinality(refs) \in Nat
  BY FS_CardinalityType DEF Basic, RefsFew
<1>5. RefsFew'
  <2>1. CASE native
    BY <1>1, <1>4, <2>1 DEF Registered, RefsFew
  <2>2. CASE ~native
    <3>1. IsFiniteSet(refs \cup {NewRef}) /\ Cardinality(refs \cup {NewRef}) <= nregs + 1
      BY <1>1, <1>4, OneMore
    <3>2. refs' = refs \cup {NewRef}
      BY <2>2 DEF Registered
    <3>3. QED
      BY <1>1, <3>1, <3>2 DEF RefsFew
  <2>3. QED
    BY <2>1, <2>2
<1>6. nregs' \in 0..MaxRegs
  BY <1>1 DEF RegId
<1>7. QED
  BY <1>2, <1>3, <1>5, <1>6

LEMMA GivenGrows ==
  ASSUME Basic, nregs < MaxRegs, NEW m \in Mods, NEW native \in BOOLEAN,
         NEW handle \in Rec \X Slot, Registered(m, native, handle)
  PROVE  Given'
<1>1. nregs \in Nat /\ nregs' = nregs + 1 /\ nregs + 1 \in RegId
  BY DEF Registered, Basic, Types, RegId
<1>2. /\ reg'[nregs + 1].state = "live" /\ reg'[nregs + 1].handle = handle
      /\ reg'[nregs + 1].mod = m /\ reg'[nregs + 1].by = 0
      /\ \A n \in RegId \ {nregs + 1} : reg'[n] = reg[n]
  BY <1>1 DEF Registered, Basic, Types
<1>3. \A n \in RegId : n <= nregs' <=> (n = nregs + 1 \/ n <= nregs)
  BY <1>1 DEF RegId
<1>4. \A n \in RegId : reg[n].by \in Nat
  BY DEF Basic, Types, Registration, RegId
<1>5. ASSUME NEW n \in RegId, n # nregs + 1, n <= nregs
      PROVE  reg'[n].by <= nregs'
  BY <1>1, <1>2, <1>4, <1>5 DEF Basic, Given
<1>6. QED
  BY <1>1, <1>2, <1>3, <1>5 DEF Basic, Given

LEMMA ReferencesGo ==
  ASSUME Basic, refs' = refs \/ (\E r : refs' = refs \ {r}), nregs' = nregs
  PROVE  refs' \subseteq Ref /\ RefsFew'
<1>1. refs' \subseteq Ref
  BY DEF Basic, Types
<1>2. nregs \in Nat /\ IsFiniteSet(refs) /\ Cardinality(refs) <= nregs
  BY DEF Basic, Types, RefsFew
<1>3. \A r : IsFiniteSet(refs \ {r}) /\ Cardinality(refs \ {r}) <= nregs
  BY <1>2, OneMore
<1>4. RefsFew'
  BY <1>2, <1>3 DEF RefsFew
<1>5. QED
  BY <1>1, <1>4

LEMMA ClaimIs ==
  ASSUME Basic, NEW va \in VA, NEW rec \in AllocRec, NEW tier \in 0..2, NEW cb \in [Slot -> Cb],
         Claim(va, rec, tier, cb)
  PROVE  /\ hk' \in [Rec -> HookRec] /\ busy' \in [Rec -> BOOLEAN]
         /\ mh' \in [VA -> [state : {"none", "created", "enabled"}, rec : Rec \cup {0}]]
         /\ Led' /\ thunks' \in 0..MAX_THUNKS /\ flawed' \subseteq VA
<1>1. rec \in Rec
  BY Allocated DEF Basic
<1>2. hk' \in [Rec -> HookRec] /\ busy' \in [Rec -> BOOLEAN]
  BY <1>1 DEF Claim, Basic, Types, HookRec
<1>3. mh' \in [VA -> [state : {"none", "created", "enabled"}, rec : Rec \cup {0}]]
  BY <1>1 DEF Claim, Created, Basic, Types
<1>4. Led'
  BY <1>1 DEF Claim, Created, Basic, Types, Led
<1>5. thunks' \in 0..MAX_THUNKS /\ flawed' \subseteq VA
  BY DEF Claim, PoolLeft, Basic, Types
<1>6. QED
  BY <1>2, <1>3, <1>4, <1>5

LEMMA ZeroIs == ZeroRec \in HookRec /\ ZeroRec.cb \in [Slot -> Cb] /\ Free \in Cb
<1>1. Free \in Cb
  BY DEF Free, Cb
<1>2. [s \in Slot |-> Free] \in [Slot -> Cb]
  BY <1>1
<1>3. QED
  BY <1>1, <1>2 DEF ZeroRec, HookRec

LEMMA Renamed ==
  ASSUME NEW z \in HookRec, NEW tier \in 0..2, NEW va \in VA
  PROVE  /\ [z EXCEPT !.tier = tier, !.va = va] \in HookRec
         /\ [z EXCEPT !.tier = tier, !.va = va].cb = z.cb
         /\ [z EXCEPT !.tier = tier, !.va = va].used = z.used
BY DEF HookRec

LEMMA ObserverIs ==
  ASSUME Basic, nregs < MaxRegs, NEW native \in BOOLEAN, NEW cb \in Cb
  PROVE  /\ Observer(native, cb) \in Cb
         /\ Observer(native, cb).used /\ Observer(native, cb).id = nregs + 1
         /\ Observer(native, cb).native = native
BY NewRefFree DEF Observer, Cb, Basic, Types, RegId

LEMMA EndedIs ==
  ASSUME Basic, NEW k \in RegId \cup {0}, k <= nregs, NEW st \in {"removed", "faulted"},
         NEW n \in RegId \cup {0}, n <= nregs, reg' = Ended(k, st, n), nregs' = nregs
  PROVE  reg' \in [RegId -> Registration] /\ Given'
<1>0. reg \in [RegId -> Registration]
  BY DEF Basic, Types
<1>1. reg' \in [RegId -> Registration]
  <2>1. CASE k \in RegId
    <3>1. PICK old \in Registration : old = reg[k]
      BY <1>0, <2>1
    <3>2. [old EXCEPT !.state = st, !.by = n] \in Registration
      BY DEF Registration
    <3>3. reg' = [reg EXCEPT ![k] = [old EXCEPT !.state = st, !.by = n]]
      BY <3>1 DEF Ended
    <3>4. QED
      BY <1>0, <3>2, <3>3
  <2>2. CASE k \notin RegId
    BY <1>0, <2>2 DEF Ended
  <2>3. QED
    BY <2>1, <2>2
<1>2. \A m \in RegId : reg'[m].handle = reg[m].handle /\ reg'[m].mod = reg[m].mod
                      /\ (m # k => reg'[m] = reg[m])
                      /\ (m = k => reg'[m].state = st /\ reg'[m].by = n)
  BY DEF Ended, Basic, Types, Registration
<1>3. Given'
  BY <1>2 DEF Basic, Given
<1>4. QED
  BY <1>1, <1>3

\* What changing one slot of a chain leaves alone.
LEMMA SlotChanged ==
  ASSUME Types, NEW rec \in Rec, NEW s \in Slot, NEW c \in Cb, hk' = WithSlot(rec, s, c)
  PROVE  /\ hk' \in [Rec -> HookRec] /\ hk'[rec].cb[s] = c
         /\ \A r \in Rec : hk'[r].used = hk[r].used /\ hk'[r].va = hk[r].va /\ hk'[r].tier = hk[r].tier
         /\ \A r \in Rec, t \in Slot : r # rec \/ t # s => hk'[r].cb[t] = hk[r].cb[t]
<1> DEFINE h == [hk[rec] EXCEPT !.cb = [hk[rec].cb EXCEPT ![s] = c]]
<1>1. hk[rec] \in HookRec /\ hk[rec].cb \in [Slot -> Cb] /\ hk \in [Rec -> HookRec]
  BY DEF Types, HookRec
<1>2. [hk[rec].cb EXCEPT ![s] = c] \in [Slot -> Cb]
  BY <1>1
<1>3. /\ h \in HookRec /\ h.cb = [hk[rec].cb EXCEPT ![s] = c]
      /\ h.used = hk[rec].used /\ h.va = hk[rec].va /\ h.tier = hk[rec].tier
  BY <1>1, <1>2 DEF HookRec
<1>4. hk' = [hk EXCEPT ![rec] = h]
  BY <1>1 DEF WithSlot
<1> HIDE DEF h
<1>5. hk' \in [Rec -> HookRec] /\ hk'[rec] = h /\ \A r \in Rec \ {rec} : hk'[r] = hk[r]
  BY <1>1, <1>3, <1>4
<1>6. \A r \in Rec : hk'[r].used = hk[r].used /\ hk'[r].va = hk[r].va /\ hk'[r].tier = hk[r].tier
  BY <1>3, <1>5
<1>7. hk'[rec].cb[s] = c /\ \A t \in Slot \ {s} : hk'[rec].cb[t] = hk[rec].cb[t]
  BY <1>1, <1>3, <1>5
<1>8. QED
  BY <1>5, <1>6, <1>7

LEMMA Kept ==
  ASSUME Basic, nregs' \in {nregs, nregs + 1}
  PROVE  /\ nregs \in Nat /\ nregs' \in Nat
         /\ stack' = stack => FromSlot'
         /\ (\A r \in Rec, s \in Slot : hk'[r].cb[s].id \in {0, hk[r].cb[s].id, nregs'}) => Ids'
<1>1. nregs \in Nat /\ nregs' \in Nat /\ nregs <= nregs'
  BY DEF Basic, Types
<1>2. \A k \in DOMAIN stack : stack[k].running \in Nat
  BY StackIs DEF Basic, Pass, RegId
<1>3. ASSUME stack' = stack PROVE FromSlot'
  <2>1. \A k \in DOMAIN stack : stack[k].running <= nregs'
    BY <1>1, <1>2 DEF Basic, FromSlot
  <2>2. QED
    BY <1>3, <2>1 DEF Basic, FromSlot
<1>4. \A r \in Rec, s \in Slot : hk[r].cb[s].id \in Nat /\ hk[r].cb[s].id <= nregs
  BY DEF Basic, Types, HookRec, Cb, RegId, Ids
<1>5. ASSUME \A r \in Rec, s \in Slot : hk'[r].cb[s].id \in {0, hk[r].cb[s].id, nregs'}
      PROVE  Ids'
  <2> SUFFICES ASSUME NEW r \in Rec, NEW s \in Slot PROVE hk'[r].cb[s].id <= nregs'
    BY DEF Ids
  <2>1. hk'[r].cb[s].id \in {0, hk[r].cb[s].id, nregs'}
    BY <1>5
  <2>2. QED
    BY <1>1, <1>4, <2>1
<1>6. QED
  BY <1>1, <1>3, <1>5

LEMMA Joins ==
  ASSUME Basic, NEW m \in Mods, NEW va \in VA, NEW native \in BOOLEAN, EntryJoins(m, va, native)
  PROVE  Basic'
<1>0. PICK rec \in RecForVa(va) : \E s \in FreeSlot(rec) :
        /\ hk' = WithSlot(rec, s, Observer(native, hk[rec].cb[s]))
        /\ Registered(m, native, <<rec, s>>)
  BY DEF EntryJoins
<1>1. PICK s \in FreeSlot(rec) :
        /\ hk' = WithSlot(rec, s, Observer(native, hk[rec].cb[s]))
        /\ Registered(m, native, <<rec, s>>)
  BY <1>0
<1>2. rec \in Rec /\ s \in Slot /\ nregs < MaxRegs
  BY SlotAllocated DEF RecForVa, EntryJoins
<1>3. hk[rec].cb[s] \in Cb
  BY <1>2 DEF Basic, Types, HookRec
<1>4. /\ hk' \in [Rec -> HookRec]
      /\ hk'[rec].cb[s] = Observer(native, hk[rec].cb[s])
      /\ \A r \in Rec, t \in Slot : r # rec \/ t # s => hk'[r].cb[t] = hk[r].cb[t]
  <2>1. PICK c : c = Observer(native, hk[rec].cb[s])
    OBVIOUS
  <2>2. c \in Cb /\ Types /\ hk' = WithSlot(rec, s, c)
    BY <1>1, <1>2, <1>3, <2>1, ObserverIs DEF Basic
  <2>3. QED
    BY <1>2, <2>1, <2>2, SlotChanged
<1>5. nregs' = nregs + 1 /\ stack' = stack
  BY <1>1 DEF Registered, EntryJoins
<1>6. Ids' /\ FromSlot'
  BY <1>2, <1>3, <1>4, <1>5, ObserverIs, Kept
<1>7. QED
  BY <1>1, <1>2, <1>4, <1>6, RegisteredIs, GivenGrows DEF EntryJoins, Basic, Types, Led

LEMMA JoinSlot ==
  ASSUME Basic, NEW m \in Mods, NEW va \in VA, NEW native \in BOOLEAN, EntryJoins(m, va, native)
  PROVE  \A r \in Rec : hk'[r].used = hk[r].used /\ hk'[r].va = hk[r].va
<1>1. PICK rec \in RecForVa(va) : \E s \in FreeSlot(rec) :
        hk' = WithSlot(rec, s, Observer(native, hk[rec].cb[s]))
  BY DEF EntryJoins
<1>2. PICK s \in FreeSlot(rec) : hk' = WithSlot(rec, s, Observer(native, hk[rec].cb[s]))
  BY <1>1
<1>3. rec \in Rec /\ s \in Slot /\ nregs < MaxRegs
  BY SlotAllocated DEF RecForVa, EntryJoins
<1>4. Types /\ hk[rec].cb[s] \in Cb
  BY <1>3 DEF Basic, Types, HookRec
<1>5. Observer(native, hk[rec].cb[s]) \in Cb
  BY <1>3, <1>4, ObserverIs
<1>6. QED
  BY <1>2, <1>3, <1>4, <1>5, SlotChanged

\* Claiming a record leaves its slots with no registration in them or with the new one.
LEMMA ClaimSlots ==
  ASSUME Basic, NEW va, NEW rec \in Rec, NEW tier, NEW cb, Claim(va, rec, tier, cb)
  PROVE  /\ hk'[rec].cb = cb /\ hk'[rec].used /\ hk'[rec].va = va
         /\ \A r \in Rec \ {rec} : hk'[r] = hk[r]
BY DEF Claim, Basic, Types

LEMMA Claims ==
  ASSUME Basic, NEW m \in Mods, NEW va \in VA, NEW native \in BOOLEAN, EntryClaims(m, va, native)
  PROVE  Basic'
<1> DEFINE cb == [ZeroRec.cb EXCEPT ![1] = Observer(native, Free)]
<1>1. PICK rec \in AllocRec : Claim(va, rec, 1, cb) /\ Registered(m, native, <<rec, 1>>)
  BY DEF EntryClaims
<1>2. rec \in Rec /\ 1 \in Slot /\ nregs < MaxRegs
  BY Allocated DEF Basic, Slot, EntryClaims
<1>3. /\ cb \in [Slot -> Cb] /\ cb[1] = Observer(native, Free)
      /\ \A t \in Slot \ {1} : cb[t] = Free
  <2>1. Observer(native, Free) \in Cb /\ ZeroRec.cb \in [Slot -> Cb]
    BY <1>2, ObserverIs, ZeroIs
  <2>2. \A t \in Slot : ZeroRec.cb[t] = Free
    BY DEF ZeroRec
  <2>3. QED
    BY <1>2, <2>1, <2>2
<1>4. nregs' = nregs + 1 /\ stack' = stack
  BY <1>1 DEF Registered, EntryClaims
<1>5. Ids' /\ FromSlot'
  <2>1. \A t \in Slot : cb[t].id \in {0, nregs'}
    BY <1>2, <1>3, <1>4, ObserverIs, ZeroIs DEF Free
  <2> HIDE DEF cb
  <2>2. QED
    BY <1>1, <1>2, <1>4, <2>1, ClaimSlots, Kept
<1>6. QED
  <2> HIDE DEF cb
  <2>1. QED
    BY <1>1, <1>2, <1>3, <1>5, ClaimIs, RegisteredIs, GivenGrows DEF EntryClaims, Basic, Types

LEMMA TypedKeeps ==
  ASSUME Basic, NEW m \in Mods, NEW va \in VA, Typed(m, va)
  PROVE  Basic'
<1>1. PICK rec \in AllocRec : Claim(va, rec, 2, ZeroRec.cb)
  BY DEF Typed
<1>2. rec \in Rec
  BY Allocated DEF Basic
<1>3. Ids' /\ FromSlot'
  <2>1. \A t \in Slot : ZeroRec.cb[t].id = 0
    BY DEF ZeroRec, Free
  <2>2. nregs' = nregs /\ stack' = stack
    BY DEF Typed, regVars
  <2>3. QED
    BY <1>1, <1>2, <2>1, <2>2, ClaimSlots, Kept
<1>4. QED
  BY <1>1, <1>3, ClaimIs, ZeroIs DEF Typed, Basic, Types, RefsFew, Given, regVars

LEMMA ClaimFailsKeeps ==
  ASSUME Basic, NEW va \in VA, NEW tier \in {1, 2}, ClaimFails(va, tier)
  PROVE  Basic'
<1>0. thunks' \in 0..MAX_THUNKS
  BY DEF ClaimFails, PoolLeft, Basic, Types
<1>1. CASE UNCHANGED <<hk, mh, busy, flawed>>
  BY <1>0, <1>1 DEF ClaimFails, Basic, Types, RefsFew, FromSlot, Given, regVars, Led, Ids
<1>2. ASSUME NEW rec \in AllocRec,
             hk' = [hk EXCEPT ![rec] = [ZeroRec EXCEPT !.tier = tier, !.va = va]],
             mh' = Created(va, rec), busy' = [busy EXCEPT ![rec] = FALSE],
             flawed' = flawed \cup {va}
      PROVE  Basic'
  <2> DEFINE z == [ZeroRec EXCEPT !.tier = tier, !.va = va]
  <2>1. rec \in Rec
    BY Allocated DEF Basic
  <2>2. z \in HookRec /\ z.cb = ZeroRec.cb
    <3>1. tier \in 0..2 /\ ZeroRec \in HookRec
      BY ZeroIs
    <3>2. QED
      BY <3>1, Renamed
  <2>3. hk' \in [Rec -> HookRec] /\ busy' \in [Rec -> BOOLEAN]
    BY <1>2, <2>1, <2>2 DEF Basic, Types
  <2>4. mh' \in [VA -> [state : {"none", "created", "enabled"}, rec : Rec \cup {0}]]
    BY <1>2, <2>1 DEF Created, Basic, Types
  <2>5. Led'
    BY <1>2, <2>1 DEF Created, Basic, Types, Led
  <2>6. nregs' = nregs /\ stack' = stack
    BY DEF ClaimFails, regVars
  <2>7. Ids' /\ FromSlot'
    <3>1. \A t \in Slot : z.cb[t].id = 0
      BY <2>2 DEF ZeroRec, Free
    <3> HIDE DEF z
    <3>2. \A r \in Rec : hk'[r] = IF r = rec THEN z ELSE hk[r]
      BY <1>2, <2>1 DEF Basic, Types, z
    <3>3. QED
      BY <2>6, <3>1, <3>2, Kept
  <2>8. QED
    BY <1>0, <1>2, <2>3, <2>4, <2>5, <2>6, <2>7 DEF ClaimFails, Basic, Types, RefsFew, Given, regVars
<1>3. QED
  BY <1>1, <1>2 DEF ClaimFails

\* A slot whose observer goes keeps the number of its registration.
LEMMA EmptiedIs ==
  ASSUME Basic, NEW rec \in Rec, NEW s \in Slot, nregs' = nregs,
         hk' = WithSlot(rec, s, [hk[rec].cb[s] EXCEPT !.used = FALSE])
  PROVE  /\ hk' \in [Rec -> HookRec] /\ Ids'
         /\ \A r \in Rec : hk'[r].used = hk[r].used /\ hk'[r].va = hk[r].va /\ hk'[r].tier = hk[r].tier
         /\ hk'[rec].cb[s] = [hk[rec].cb[s] EXCEPT !.used = FALSE]
         /\ \A r \in Rec, t \in Slot : r # rec \/ t # s => hk'[r].cb[t] = hk[r].cb[t]
<1>1. /\ hk' \in [Rec -> HookRec]
      /\ \A r \in Rec : hk'[r].used = hk[r].used /\ hk'[r].va = hk[r].va /\ hk'[r].tier = hk[r].tier
      /\ hk'[rec].cb[s] = [hk[rec].cb[s] EXCEPT !.used = FALSE]
      /\ \A r \in Rec, t \in Slot : r # rec \/ t # s => hk'[r].cb[t] = hk[r].cb[t]
  <2>1. hk[rec].cb[s] \in Cb /\ Types
    BY DEF Basic, Types, HookRec
  <2>2. PICK c \in Cb : c = [hk[rec].cb[s] EXCEPT !.used = FALSE]
    BY <2>1 DEF Cb
  <2>3. hk' = WithSlot(rec, s, c)
    BY <2>2
  <2>4. hk' \in [Rec -> HookRec] /\ hk'[rec].cb[s] = c
    BY <2>1, <2>3, SlotChanged
  <2>5. \A r \in Rec : hk'[r].used = hk[r].used /\ hk'[r].va = hk[r].va /\ hk'[r].tier = hk[r].tier
    BY <2>1, <2>3, SlotChanged
  <2>6. ASSUME NEW r \in Rec, NEW t \in Slot, r # rec \/ t # s
        PROVE  hk'[r].cb[t] = hk[r].cb[t]
    <3>1. Types /\ rec \in Rec /\ s \in Slot /\ c \in Cb /\ hk' = WithSlot(rec, s, c)
      BY <2>1, <2>3
    <3>2. \A x \in Rec, y \in Slot : x # rec \/ y # s => hk'[x].cb[y] = hk[x].cb[y]
      BY ONLY <3>1, SlotChanged
    <3>3. QED
      BY <2>6, <3>2
  <2>7. QED
    BY <2>2, <2>4, <2>5, <2>6
<1>2. hk[rec].cb[s] \in Cb
  BY DEF Basic, Types, HookRec
<1>3. \A r \in Rec, t \in Slot : hk'[r].cb[t].id = hk[r].cb[t].id
  <2>1. hk'[rec].cb[s].id = hk[rec].cb[s].id
    BY <1>1, <1>2 DEF Cb
  <2>2. QED
    BY <1>1, <2>1
<1>4. Ids'
  BY <1>3 DEF Basic, Ids
<1>5. QED
  BY <1>1, <1>4

LEMMA RemoveSlot ==
  ASSUME Basic, NEW n \in RegId, RemoveHandle(n)
  PROVE  /\ reg[n].handle[1] \in Rec /\ reg[n].handle[2] \in Slot /\ n <= nregs
         /\ \A r \in Rec : hk'[r].used = hk[r].used /\ hk'[r].va = hk[r].va
<1> DEFINE rec == reg[n].handle[1]
           s == reg[n].handle[2]
<1>1. rec \in Rec /\ s \in Slot /\ n <= nregs
  BY DEF RemoveHandle, MayRemove, Basic, Given
<1>2. hk' = WithSlot(rec, s, [hk[rec].cb[s] EXCEPT !.used = FALSE]) /\ nregs' = nregs
  BY DEF RemoveHandle
<1> HIDE DEF rec, s
<1>3. \A r \in Rec : hk'[r].used = hk[r].used /\ hk'[r].va = hk[r].va
  BY <1>1, <1>2, EmptiedIs
<1>4. QED
  BY <1>1, <1>3 DEF rec, s

LEMMA RemoveKeeps ==
  ASSUME Basic, NEW n \in RegId, RemoveHandle(n)
  PROVE  Basic'
<1> DEFINE rec == reg[n].handle[1]
           s == reg[n].handle[2]
           cb == hk[rec].cb[s]
<1>1. reg[n].state # "none"
  BY DEF RemoveHandle, MayRemove
<1>2. rec \in Rec /\ s \in Slot
  BY <1>1 DEF Basic, Given
<1>3. hk' = WithSlot(rec, s, [cb EXCEPT !.used = FALSE]) /\ reg' = Ended(cb.id, "removed", n)
  BY DEF RemoveHandle
<1>4. nregs' = nregs /\ stack' = stack /\ (refs' = refs \/ refs' = refs \ {cb.ref})
  BY DEF RemoveHandle, Released
<1> HIDE DEF rec, s
<1>5. cb \in Cb /\ cb.id <= nregs /\ cb.id \in RegId \cup {0}
  <2>1. cb \in Cb
    BY <1>2 DEF Basic, Types, HookRec
  <2>2. cb.id <= nregs
    BY <1>2 DEF Basic, Ids
  <2>3. QED
    BY <2>1, <2>2 DEF Cb
<1>6. hk' \in [Rec -> HookRec] /\ Ids' /\ FromSlot'
  BY <1>2, <1>3, <1>4, EmptiedIs, Kept
<1>7. refs' \subseteq Ref /\ RefsFew'
  BY <1>4, ReferencesGo
<1>8. reg' \in [RegId -> Registration] /\ Given'
  BY <1>3, <1>4, <1>5, RemoveSlot, EndedIs
<1>9. QED
  BY <1>4, <1>6, <1>7, <1>8 DEF RemoveHandle, Basic, Types, Led

LEMMA CallKeeps ==
  ASSUME Basic, NEW va \in VA, Call(va)
  PROVE  Basic'
<1> DEFINE rec == mh[va].rec
           pass == [rec |-> rec, va |-> va, i |-> 1, running |-> 0, called |-> {},
                    due |-> {n \in 1..nregs : reg[n].state = "live" /\ reg[n].handle[1] = rec}]
<1>1. rec \in Rec
  BY DEF Call, Enters, Basic, Led
<1>2. pass \in Pass /\ pass.running = 0
  BY <1>1 DEF Pass, Basic, Types, RegId
<1>3. stack' = Append(stack, pass) /\ busy' = [busy EXCEPT ![rec] = TRUE] /\ nregs' = nregs
  BY DEF Call, regVars
<1>4. busy' \in [Rec -> BOOLEAN]
  BY <1>1, <1>3 DEF Basic, Types
<1>5. stack' \in Seq(Pass) /\ FromSlot'
  <2> HIDE DEF pass
  <2>1. nregs \in Nat /\ Len(stack) \in Nat /\ DOMAIN stack = 1..Len(stack)
    BY StackIs DEF Basic, Types
  <2>2. /\ stack' \in Seq(Pass) /\ DOMAIN stack' = 1..Len(stack) + 1
        /\ stack'[Len(stack) + 1] = pass
        /\ \A k \in DOMAIN stack : stack'[k] = stack[k]
    BY <1>2, <1>3, Pushed DEF Basic
  <2>3. QED
    BY <1>2, <1>3, <2>1, <2>2 DEF Basic, FromSlot
<1>6. QED
  BY <1>4, <1>5 DEF Call, recVars, regVars, Basic, Types, RefsFew, Led, Given, Ids

\* What changes the top of the stack only.
LEMMA TopKeeps ==
  ASSUME Basic, stack # <<>>, NEW pass \in Pass, stack' = [stack EXCEPT ![Len(stack)] = pass],
         pass.running <= nregs, pass.running # 0 => pass.i \in Slot, nregs' = nregs
  PROVE  stack' \in Seq(Pass) /\ FromSlot'
<1>1. /\ stack' \in Seq(Pass) /\ DOMAIN stack' = DOMAIN stack
      /\ stack'[Len(stack)] = pass
      /\ \A k \in DOMAIN stack : k # Len(stack) => stack'[k] = stack[k]
  BY TopChanged DEF Basic
<1>2. QED
  BY <1>1 DEF Basic, FromSlot

LEMMA RunKeeps ==
  ASSUME Basic, Run
  PROVE  Basic'
<1> DEFINE s == Least(NextSlot)
           p == stack[Len(stack)]
           n == hk[p.rec].cb[s].id
           pass == [p EXCEPT !.i = s, !.running = n, !.called = p.called \cup {n}]
<1>1. stack # <<>> /\ p \in Pass /\ Top = p /\ Len(stack) \in DOMAIN stack
  BY StackIs DEF Run, Basic, Top, Last
<1>2. s \in Slot
  BY SlotNext DEF Run
<1>3. n \in RegId \cup {0} /\ n <= nregs
  BY <1>1, <1>2 DEF Basic, Types, HookRec, Cb, Pass, Ids
<1>4. stack' = [stack EXCEPT ![Len(stack)] = pass]
  BY <1>1 DEF Run
<1>5. pass \in Pass /\ pass.i = s /\ pass.running = n
  <2> HIDE DEF s, n, p
  <2>1. s \in 1..MAX_CB+1
    BY <1>2 DEF Slot
  <2>2. QED
    BY <1>1, <1>3, <2>1 DEF Pass
<1>6. nregs' = nregs
  BY DEF Run, regVars
<1>7. stack' \in Seq(Pass) /\ FromSlot'
  <2> HIDE DEF pass, n, s
  <2>1. QED
    BY <1>1, <1>2, <1>3, <1>4, <1>5, <1>6, TopKeeps
<1>8. QED
  BY <1>7 DEF Run, recVars, regVars, Basic, Types, RefsFew, Led, Given, Ids

LEMMA ReturnIs ==
  ASSUME Basic, stack # <<>>, Top.running # 0, nregs' = nregs,
         stack' = [stack EXCEPT ![Len(stack)] = [Top EXCEPT !.i = Top.i + 1, !.running = 0]]
  PROVE  stack' \in Seq(Pass) /\ FromSlot'
<1> DEFINE p == stack[Len(stack)]
           pass == [p EXCEPT !.i = p.i + 1, !.running = 0]
<1>1. p \in Pass /\ Top = p /\ Len(stack) \in DOMAIN stack
  BY StackIs DEF Basic, Top, Last
<1>2. p.i \in Slot
  BY <1>1 DEF Basic, FromSlot
<1>3. pass \in Pass /\ pass.running = 0
  <2> HIDE DEF p
  <2>1. p.i + 1 \in 1..MAX_CB+1
    BY <1>2 DEF Slot
  <2>2. QED
    BY <1>1, <2>1 DEF Pass
<1>4. stack' = [stack EXCEPT ![Len(stack)] = pass]
  BY <1>1
<1>5. QED
  <2> HIDE DEF pass
  <2>1. pass.running <= nregs /\ (pass.running # 0 => pass.i \in Slot)
    BY <1>3 DEF Basic, Types
  <2>2. QED
    BY <1>3, <1>4, <2>1, TopKeeps

LEMMA ReturnKeeps ==
  ASSUME Basic, Return
  PROVE  Basic'
<1>1. nregs' = nregs
  BY DEF Return, regVars
<1>2. stack' \in Seq(Pass) /\ FromSlot'
  BY <1>1, ReturnIs DEF Return
<1>3. QED
  BY <1>2 DEF Return, recVars, regVars, Basic, Types, RefsFew, Led, Given, Ids

LEMMA FaultSlot ==
  ASSUME Basic, Fault
  PROVE  /\ Top = stack[Len(stack)] /\ Top \in Pass /\ Top.rec \in Rec /\ Top.i \in Slot
         /\ \A r \in Rec : hk'[r].used = hk[r].used /\ hk'[r].va = hk[r].va
<1>1. Top \in Pass /\ Top = stack[Len(stack)] /\ Len(stack) \in DOMAIN stack
  BY StackIs DEF Basic, Top, Last, Fault
<1>2. Top.rec \in Rec /\ Top.i \in Slot
  BY <1>1 DEF Basic, FromSlot, Fault, Pass
<1>3. /\ hk' = WithSlot(Top.rec, Top.i, [hk[Top.rec].cb[Top.i] EXCEPT !.used = FALSE])
      /\ nregs' = nregs
  BY DEF Fault
<1>4. \A r \in Rec : hk'[r].used = hk[r].used /\ hk'[r].va = hk[r].va
  BY <1>2, <1>3, EmptiedIs
<1>5. QED
  BY <1>1, <1>2, <1>4

LEMMA FaultKeeps ==
  ASSUME Basic, Fault
  PROVE  Basic'
<1> DEFINE rec == Top.rec
           s == Top.i
           cb == hk[rec].cb[s]
<1>1. stack[Len(stack)] \in Pass /\ Top = stack[Len(stack)] /\ Len(stack) \in DOMAIN stack
  BY StackIs DEF Basic, Top, Last, Fault
<1>2. rec \in Rec /\ s \in Slot
  BY <1>1 DEF Basic, FromSlot, Fault, Pass
<1>3. hk' = WithSlot(rec, s, [cb EXCEPT !.used = FALSE]) /\ nregs' = nregs
  BY DEF Fault
<1>4. refs' = refs \ {cb.ref}
  BY DEF Fault
<1>5. cb \in Cb /\ cb.id <= nregs /\ cb.id \in RegId \cup {0}
  BY <1>2 DEF Basic, Types, HookRec, Ids, Cb
<1>6. reg' = IF ~cb.used THEN reg ELSE Ended(cb.id, "faulted", Top.running)
  BY DEF Fault
<1>7. Top.running \in RegId \cup {0} /\ Top.running <= nregs
  BY <1>1 DEF Pass, Basic, FromSlot
<1>8. stack' \in Seq(Pass) /\ FromSlot'
  BY <1>3, ReturnIs DEF Fault
<1> HIDE DEF rec, s
<1>9. hk' \in [Rec -> HookRec] /\ Ids'
  BY <1>2, <1>3, EmptiedIs
<1>10. refs' \subseteq Ref /\ RefsFew'
  BY <1>3, <1>4, ReferencesGo
<1>11. reg' \in [RegId -> Registration] /\ Given'
  <2>1. CASE cb.used
    BY <1>3, <1>5, <1>6, <1>7, <2>1, EndedIs
  <2>2. CASE ~cb.used
    BY <1>3, <1>6, <2>2 DEF Basic, Types, Given
  <2>3. QED
    BY <2>1, <2>2
<1>12. QED
  BY <1>3, <1>8, <1>9, <1>10, <1>11 DEF Fault, Basic, Types, Led

LEMMA DispatchEndKeeps ==
  ASSUME Basic, DispatchEnd
  PROVE  Basic'
<1>1. stack[Len(stack)] \in Pass /\ Top = stack[Len(stack)]
  BY StackIs DEF Basic, Top, Last, DispatchEnd
<1>2. busy' \in [Rec -> BOOLEAN]
  BY <1>1 DEF DispatchEnd, Basic, Types, Pass
<1>3. nregs' = nregs /\ Len(stack) \in Nat /\ DOMAIN stack = 1..Len(stack)
  BY StackIs DEF DispatchEnd, regVars, Basic
<1>4. /\ stack' \in Seq(Pass) /\ DOMAIN stack' = 1..Len(stack) - 1
      /\ \A k \in DOMAIN stack' : stack'[k] = stack[k]
  BY Popped DEF DispatchEnd, Basic
<1>5. FromSlot'
  BY <1>3, <1>4 DEF Basic, FromSlot
<1>6. QED
  BY <1>2, <1>4, <1>5 DEF DispatchEnd, recVars, regVars, Basic, Types, RefsFew, Led, Given, Ids

LEMMA WorkerKeeps ==
  ASSUME Basic, NEW w \in Workers, Worker(w)
  PROVE  Basic'
<1>1. busy' \in [Rec -> BOOLEAN] /\ wpc' \in [Workers -> Rec \cup {0}]
  BY DEF Worker, WorkerLeaves, WorkerEnters, Enters, Basic, Types, Led
<1>2. UNCHANGED <<recVars, regVars, stack>>
  BY DEF Worker, WorkerLeaves, WorkerEnters
<1>3. QED
  BY <1>1, <1>2 DEF recVars, regVars, Basic, Types, RefsFew, FromSlot, Led, Given, Ids

-----------------------------------------------------------------------------
(***************************************************************************)
(* Records: no two used ones claim an address, and MinHook leads an        *)
(* address to the record that claims it unless enabling has failed for it. *)
(***************************************************************************)
Distinct == \A r, q \in Rec : hk[r].used /\ hk[q].used /\ hk[r].va = hk[q].va => r = q

\* alloc_rec took the first record that was not in use, and none is given back.
BelowUsed == \A va \in VA : mh[va].state # "none" => \A q \in Rec : q < mh[va].rec => hk[q].used

LedToUsed == \A va \in VA : mh[va].state = "enabled" => hk[mh[va].rec].used

LedHome == \A va \in VA \ flawed : /\ mh[va].state # "created"
                                   /\ mh[va].state = "enabled" => hk[mh[va].rec].va = va

Records == Distinct /\ BelowUsed /\ LedToUsed /\ LedHome

LEMMA RecordsKept ==
  ASSUME Basic, Records, mh' = mh, flawed' = flawed,
         \A r \in Rec : hk'[r].used = hk[r].used /\ hk'[r].va = hk[r].va
  PROVE  Records'
BY DEF Basic, Led, Records, Distinct, BelowUsed, LedToUsed, LedHome

LEMMA CreatedIs ==
  ASSUME Basic, NEW va \in VA, NEW rec \in Rec
  PROVE  /\ \A x \in VA \ {va} : Created(va, rec)[x] = mh[x]
         /\ mh[va].state # "none" => Created(va, rec)[va] = mh[va]
         /\ mh[va].state = "none" => Created(va, rec)[va] = [state |-> "created", rec |-> rec]
         /\ Created(va, rec) \in [VA -> [state : {"none", "created", "enabled"}, rec : Rec \cup {0}]]
BY DEF Created, Basic, Types

LEMMA ClaimRecords ==
  ASSUME Basic, Records, NEW va \in VA, NEW rec \in AllocRec, NEW tier, NEW cb,
         RecForVa(va) = {}, Claim(va, rec, tier, cb)
  PROVE  Records'
<1>1. rec \in Rec /\ ~hk[rec].used /\ \A r \in Rec : r < rec => hk[r].used
  BY Allocated DEF Basic
<1>2. /\ hk'[rec].used /\ hk'[rec].va = va /\ flawed' = flawed
      /\ \A r \in Rec \ {rec} : hk'[r] = hk[r]
  <2>1. flawed' = flawed
    BY DEF Claim
  <2>2. QED
    BY <1>1, <2>1, ClaimSlots
<1>3. /\ \A x \in VA \ {va} : mh'[x] = mh[x]
      /\ mh'[va].state = "enabled"
      /\ mh'[va].rec = IF mh[va].state = "none" THEN rec ELSE mh[va].rec
  <2>1. mh' = [Created(va, rec) EXCEPT ![va].state = "enabled"]
    BY DEF Claim
  <2> DEFINE m == Created(va, rec)
  <2>2. /\ \A x \in VA \ {va} : m[x] = mh[x]
        /\ m[va].rec = IF mh[va].state = "none" THEN rec ELSE mh[va].rec
        /\ m \in [VA -> [state : {"none", "created", "enabled"}, rec : Rec \cup {0}]]
    <3>1. /\ \A x \in VA \ {va} : m[x] = mh[x]
          /\ mh[va].state # "none" => m[va] = mh[va]
          /\ mh[va].state = "none" => m[va] = [state |-> "created", rec |-> rec]
          /\ m \in [VA -> [state : {"none", "created", "enabled"}, rec : Rec \cup {0}]]
      BY <1>1, CreatedIs, Zenon
    <3> HIDE DEF m
    <3>2. QED
      BY <3>1
  <2> HIDE DEF m
  <2>3. mh' = [m EXCEPT ![va] = [m[va] EXCEPT !.state = "enabled"]]
    BY <2>1 DEF m
  <2>4. QED
    BY <2>2, <2>3
<1>4. \A r \in Rec : hk[r].used => hk[r].va # va
  BY DEF RecForVa
<1>5. Distinct'
  BY <1>1, <1>2, <1>4 DEF Records, Distinct
<1>6. BelowUsed'
  BY <1>1, <1>2, <1>3 DEF Records, BelowUsed
<1>7. mh[va].state # "none" => mh[va].rec \in Rec
  BY DEF Basic, Led
\* The record of an earlier attempt is in use by now: the free ones start at rec.
<1>8. hk'[mh'[va].rec].used
  <2>1. CASE mh[va].state = "none"
    BY <1>2, <1>3, <2>1
  <2>2. CASE mh[va].state # "none"
    <3>1. ~(rec < mh[va].rec)
      BY <1>1, <2>2 DEF Records, BelowUsed
    <3>2. mh[va].rec = rec \/ mh[va].rec < rec
      BY <1>1, <1>7, <2>2, <3>1 DEF Rec
    <3>3. QED
      BY <1>1, <1>2, <1>3, <1>7, <2>2, <3>2
  <2>3. QED
    BY <2>1, <2>2
<1>9. LedToUsed'
  BY <1>1, <1>2, <1>3, <1>8 DEF Basic, Led, Records, LedToUsed
<1>10. LedHome'
  <2>1. ASSUME va \notin flawed PROVE hk'[mh'[va].rec].va = va
    <3>1. mh[va].state = "none"
      BY <1>4, <1>7, <2>1 DEF Records, LedHome, LedToUsed, Basic, Types
    <3>2. QED
      BY <1>2, <1>3, <3>1
  <2>2. \A x \in VA \ {va} : mh[x].state = "enabled" => mh[x].rec \in Rec \ {rec}
    BY <1>1 DEF Basic, Led, Records, LedToUsed
  <2>3. QED
    BY <1>2, <1>3, <2>1, <2>2 DEF Records, LedHome
<1>11. QED
  BY <1>5, <1>6, <1>9, <1>10 DEF Records

LEMMA ClaimFailsRecords ==
  ASSUME Basic, Records, NEW va \in VA, NEW tier, ClaimFails(va, tier)
  PROVE  Records'
<1>1. CASE UNCHANGED <<hk, mh, busy, flawed>>
  BY <1>1, RecordsKept
<1>2. ASSUME NEW rec \in AllocRec,
             hk' = [hk EXCEPT ![rec] = [ZeroRec EXCEPT !.tier = tier, !.va = va]],
             mh' = Created(va, rec), flawed' = flawed \cup {va}
      PROVE  Records'
  <2>1. rec \in Rec /\ ~hk[rec].used /\ \A r \in Rec : r < rec => hk[r].used
    BY Allocated DEF Basic
  <2>2. ~hk'[rec].used /\ \A r \in Rec \ {rec} : hk'[r] = hk[r]
    BY <1>2, <2>1 DEF Basic, Types, ZeroRec
  <2>3. /\ \A x \in VA \ {va} : mh'[x] = mh[x]
        /\ mh[va].state # "none" => mh'[va] = mh[va]
        /\ mh[va].state = "none" => mh'[va] = [state |-> "created", rec |-> rec]
    BY <1>2, <2>1, CreatedIs
  <2>4. Distinct'
    BY <2>1, <2>2 DEF Records, Distinct
  <2>5. BelowUsed'
    <3> SUFFICES ASSUME NEW x \in VA, mh'[x].state # "none", NEW q \in Rec, q < mh'[x].rec
                 PROVE  hk'[q].used
      BY DEF BelowUsed
    <3>1. hk[q].used
      BY <2>1, <2>3 DEF Records, BelowUsed
    <3>2. QED
      BY <2>1, <2>2, <3>1
  <2>6. LedToUsed'
    <3> SUFFICES ASSUME NEW x \in VA, mh'[x].state = "enabled" PROVE hk'[mh'[x].rec].used
      BY DEF LedToUsed
    <3>1. mh'[x] = mh[x] /\ hk[mh[x].rec].used /\ mh[x].rec \in Rec
      BY <2>3 DEF Records, LedToUsed, Basic, Led
    <3>2. QED
      BY <2>1, <2>2, <3>1
  <2>7. LedHome'
    <3> SUFFICES ASSUME NEW x \in VA \ flawed'
                 PROVE  mh'[x].state # "created" /\ (mh'[x].state = "enabled" => hk'[mh'[x].rec].va = x)
      BY DEF LedHome
    <3>1. x \in VA \ flawed /\ mh'[x] = mh[x]
      BY <1>2, <2>3
    <3>2. mh[x].state = "enabled" => mh[x].rec \in Rec \ {rec}
      BY <2>1, <3>1 DEF Records, LedToUsed, Basic, Led
    <3>3. QED
      BY <2>2, <3>1, <3>2 DEF Records, LedHome
  <2>8. QED
    BY <2>4, <2>5, <2>6, <2>7 DEF Records
<1>3. QED
  BY <1>1, <1>2 DEF ClaimFails

-----------------------------------------------------------------------------
(***************************************************************************)
(* Flags: a dispatch or a worker that is inside the thunk holds the flag   *)
(* of its record alone, and the record stays in use.                       *)
(***************************************************************************)
HasFlag(r) == (\E k \in DOMAIN stack : stack[k].rec = r) \/ (\E w \in Workers : wpc[w] = r)

Flagged == \A r \in Rec : busy[r] <=> HasFlag(r)

Alone == /\ \A j, k \in DOMAIN stack : stack[j].rec = stack[k].rec => j = k
         /\ \A v, w \in Workers : wpc[v] = wpc[w] /\ wpc[v] # 0 => v = w
         /\ \A k \in DOMAIN stack, w \in Workers : stack[k].rec # wpc[w]

FlagUsed == \A r \in Rec : busy[r] => hk[r].used

Flags == Flagged /\ Alone /\ FlagUsed

\* A step that leaves the dispatches where they are, and resets the flag of no record in use.
LEMMA FlagsKept ==
  ASSUME Basic, Flags, DOMAIN stack' = DOMAIN stack,
         \A k \in DOMAIN stack : stack'[k].rec = stack[k].rec, wpc' = wpc,
         \A r \in Rec : hk[r].used => hk'[r].used /\ (busy'[r] <=> busy[r]),
         \A r \in Rec : ~hk[r].used => (busy'[r] => busy[r])
  PROVE  Flags'
<1>1. \A r \in Rec : HasFlag(r)' <=> HasFlag(r)
  BY DEF HasFlag
<1>2. \A r \in Rec : busy'[r] <=> busy[r]
  BY DEF Flags, FlagUsed
<1>3. Flagged' /\ FlagUsed'
  BY <1>1, <1>2 DEF Flags, Flagged, FlagUsed
<1>4. Alone'
  BY DEF Flags, Alone
<1>5. QED
  BY <1>3, <1>4 DEF Flags

\* A call takes the flag of its record, an end gives it back.
LEMMA CallFlags ==
  ASSUME Basic, Records, Flags, NEW va \in VA, Call(va)
  PROVE  Flags'
<1> DEFINE rec == mh[va].rec
           n == Len(stack) + 1
<1>1. rec \in Rec /\ hk[rec].used /\ ~busy[rec]
  BY DEF Call, Enters, NotBusy, Basic, Led, Records, LedToUsed
<1>2. PICK pass \in Pass : stack' = Append(stack, pass) /\ pass.rec = rec
  BY <1>1 DEF Call, Pass, Basic, Types, RegId
<1>3. /\ DOMAIN stack = 1..Len(stack) /\ Len(stack) \in Nat
      /\ DOMAIN stack' = DOMAIN stack \cup {n} /\ n \notin DOMAIN stack
      /\ stack'[n].rec = rec /\ \A k \in DOMAIN stack : stack'[k] = stack[k]
  <2>1. /\ DOMAIN stack = 1..Len(stack) /\ Len(stack) \in Nat
        /\ DOMAIN stack' = 1..n /\ stack'[n] = pass
        /\ \A k \in DOMAIN stack : stack'[k] = stack[k]
    BY <1>2, StackIs, Pushed DEF Basic
  <2>2. QED
    BY <1>2, <2>1
<1>4. wpc' = wpc /\ hk' = hk /\ busy' = [busy EXCEPT ![rec] = TRUE]
  BY DEF Call, recVars
<1> HIDE DEF rec, n
<1>5. \A k \in DOMAIN stack : stack[k].rec # rec
  BY <1>1 DEF Flags, Flagged, HasFlag
<1>6. \A w \in Workers : wpc[w] # rec
  BY <1>1 DEF Flags, Flagged, HasFlag
<1>7. \A r \in Rec : busy'[r] <=> (r = rec \/ busy[r])
  BY <1>4 DEF Basic, Types
<1>8. \A r \in Rec : HasFlag(r)' <=> (r = rec \/ HasFlag(r))
  BY <1>3, <1>4 DEF HasFlag
<1>9. Flagged' /\ FlagUsed'
  BY <1>1, <1>4, <1>7, <1>8 DEF Flags, Flagged, FlagUsed
<1>10. Alone'
  BY <1>3, <1>4, <1>5, <1>6 DEF Flags, Alone
<1>11. QED
  BY <1>9, <1>10 DEF Flags

LEMMA DispatchEndFlags ==
  ASSUME Basic, Flags, DispatchEnd
  PROVE  Flags'
<1> DEFINE rec == stack[Len(stack)].rec
           n == Len(stack)
<1>1. /\ n \in DOMAIN stack /\ Top = stack[n] /\ rec \in Rec
      /\ DOMAIN stack' = DOMAIN stack \ {n} /\ \A k \in DOMAIN stack' : stack'[k] = stack[k]
  <2>1. stack # <<>> /\ Types /\ stack' = Front(stack)
    BY DEF DispatchEnd, Basic
  <2>2. /\ n \in Nat /\ n > 0 /\ DOMAIN stack = 1..n /\ stack[n] \in Pass
        /\ DOMAIN stack' = 1..n - 1 /\ \A k \in DOMAIN stack' : stack'[k] = stack[k]
    BY <2>1, StackIs, Popped
  <2>3. QED
    BY <2>2 DEF Pass, Top, Last
<1>2. wpc' = wpc /\ hk' = hk /\ busy' = [busy EXCEPT ![rec] = FALSE]
  BY <1>1 DEF DispatchEnd, recVars
<1>3. \A k \in DOMAIN stack' : stack[k].rec # rec
  BY <1>1 DEF Flags, Alone
<1>4. \A w \in Workers : wpc[w] # rec
  BY <1>1 DEF Flags, Alone
<1> HIDE DEF rec, n
<1>5. \A r \in Rec : busy'[r] <=> (r # rec /\ busy[r])
  BY <1>2 DEF Basic, Types
<1>6. \A r \in Rec : HasFlag(r)' <=> (r # rec /\ HasFlag(r))
  BY <1>1, <1>2, <1>3, <1>4 DEF HasFlag, rec, n
<1>7. Flagged' /\ FlagUsed'
  BY <1>2, <1>5, <1>6 DEF Flags, Flagged, FlagUsed
<1>8. Alone'
  BY <1>1, <1>2 DEF Flags, Alone
<1>9. QED
  BY <1>7, <1>8 DEF Flags

LEMMA WorkerFlags ==
  ASSUME Basic, Records, Flags, NEW w \in Workers, Worker(w)
  PROVE  Flags'
<1>0. hk' = hk /\ stack' = stack
  BY DEF Worker, WorkerLeaves, WorkerEnters, recVars
<1>1. CASE WorkerLeaves(w)
  <2> DEFINE rec == wpc[w]
  <2>1. /\ rec \in Rec /\ busy' = [busy EXCEPT ![rec] = FALSE] /\ wpc' = [wpc EXCEPT ![w] = 0]
    BY <1>1 DEF WorkerLeaves, Basic, Types
  <2>2. /\ \A v \in Workers \ {w} : wpc[v] # rec /\ wpc'[v] = wpc[v]
        /\ \A k \in DOMAIN stack : stack[k].rec # rec
        /\ wpc'[w] = 0 /\ 0 \notin Rec
    BY <2>1 DEF Flags, Alone, Basic, Types, Rec
  <2> HIDE DEF rec
  <2>3. \A r \in Rec : busy'[r] <=> (r # rec /\ busy[r])
    BY <2>1 DEF Basic, Types
  <2>4. \A r \in Rec : HasFlag(r)' <=> (r # rec /\ HasFlag(r))
    BY <1>0, <2>2 DEF HasFlag, rec
  <2>5. Flagged' /\ FlagUsed'
    BY <1>0, <2>3, <2>4 DEF Flags, Flagged, FlagUsed
  <2>6. \A k \in DOMAIN stack : stack[k].rec # 0
    BY <2>2, StackIs DEF Basic, Pass
  <2>7. Alone'
    BY <1>0, <2>2, <2>6 DEF Flags, Alone
  <2>8. QED
    BY <2>5, <2>7 DEF Flags
<1>2. ASSUME NEW va \in VA, WorkerEnters(w, va) PROVE Flags'
  <2> DEFINE rec == mh[va].rec
  <2>1. /\ rec \in Rec /\ hk[rec].used /\ ~busy[rec] /\ wpc[w] = 0
        /\ busy' = [busy EXCEPT ![rec] = TRUE] /\ wpc' = [wpc EXCEPT ![w] = rec]
    BY <1>2 DEF WorkerEnters, Enters, Basic, Led, Records, LedToUsed
  <2> HIDE DEF rec
  <2>2. /\ \A v \in Workers : wpc[v] # rec
        /\ \A k \in DOMAIN stack : stack[k].rec # rec
    BY <2>1 DEF Flags, Flagged, HasFlag
  <2>3. /\ \A v \in Workers \ {w} : wpc'[v] = wpc[v]
        /\ wpc'[w] = rec /\ 0 \notin Rec
    BY <2>1 DEF Basic, Types, Rec
  <2>4. \A r \in Rec : busy'[r] <=> (r = rec \/ busy[r])
    BY <2>1 DEF Basic, Types
  <2>5. \A r \in Rec : HasFlag(r)' <=> (r = rec \/ HasFlag(r))
    BY <1>0, <2>1, <2>3 DEF HasFlag
  <2>6. Flagged' /\ FlagUsed'
    BY <1>0, <2>1, <2>4, <2>5 DEF Flags, Flagged, FlagUsed
  <2>7. Alone'
    BY <1>0, <2>1, <2>2, <2>3 DEF Flags, Alone
  <2>8. QED
    BY <2>6, <2>7 DEF Flags
<1>3. QED
  BY <1>1, <1>2 DEF Worker

\* The other steps leave every dispatch in its record.
LEMMA TopFlags ==
  ASSUME Basic, Flags, Run \/ Return \/ Fault
  PROVE  Flags'
<1>1. /\ DOMAIN stack' = DOMAIN stack
      /\ \A k \in DOMAIN stack : stack'[k].rec = stack[k].rec
  <2>1. stack # <<>> /\ Types
    BY DEF Run, Return, Fault, Basic
  <2>2. Top \in Pass /\ Top = stack[Len(stack)] /\ Len(stack) \in DOMAIN stack
    BY <2>1, StackIs DEF Top, Last
  <2>4. PICK pass : stack' = [stack EXCEPT ![Len(stack)] = pass] /\ pass.rec = Top.rec
    <3>1. CASE Run
      <4> DEFINE n == hk[Top.rec].cb[Least(NextSlot)].id
                 pass == [Top EXCEPT !.i = Least(NextSlot), !.running = n,
                                     !.called = Top.called \cup {n}]
      <4>1. stack' = [stack EXCEPT ![Len(stack)] = pass]
        BY <3>1 DEF Run
      <4>2. pass.rec = Top.rec
        BY <2>2 DEF Pass
      <4>3. QED
        BY <4>1, <4>2
    <3>2. CASE Return \/ Fault
      <4> DEFINE pass == [Top EXCEPT !.i = Top.i + 1, !.running = 0]
      <4>1. stack' = [stack EXCEPT ![Len(stack)] = pass]
        BY <3>2 DEF Return, Fault
      <4>2. pass.rec = Top.rec
        BY <2>2 DEF Pass
      <4>3. QED
        BY <4>1, <4>2
    <3>3. QED
      BY <3>1, <3>2
  <2>5. /\ DOMAIN stack' = DOMAIN stack /\ stack'[Len(stack)] = pass
        /\ \A k \in DOMAIN stack : k # Len(stack) => stack'[k] = stack[k]
    BY <2>1, <2>2, <2>4 DEF Types
  <2>6. QED
    BY <2>2, <2>4, <2>5
<1>2. busy' = busy /\ wpc' = wpc
  BY DEF Run, Return, Fault
<1>3. \A r \in Rec : hk'[r].used = hk[r].used
  <2>1. CASE Run \/ Return
    BY <2>1 DEF Run, Return, recVars
  <2>2. CASE Fault
    BY <2>2, FaultSlot
  <2>3. QED
    BY <2>1, <2>2
<1>4. QED
  BY <1>1, <1>2, <1>3, FlagsKept

\* Claiming a record clears the flag of one that was not in use, hence not held.
LEMMA ClaimFlags ==
  ASSUME Basic, Flags, NEW va, NEW rec \in AllocRec, NEW tier, NEW cb, Claim(va, rec, tier, cb),
         stack' = stack, wpc' = wpc
  PROVE  Flags'
<1>1. rec \in Rec /\ ~hk[rec].used
  BY Allocated DEF Basic
<1>2. hk'[rec].used /\ \A r \in Rec \ {rec} : hk'[r] = hk[r]
  BY <1>1, ClaimSlots
<1>3. busy' = [busy EXCEPT ![rec] = FALSE]
  BY DEF Claim
<1>4. \A r \in Rec : busy'[r] = IF r = rec THEN FALSE ELSE busy[r]
  BY <1>1, <1>3 DEF Basic, Types
<1>5. QED
  BY <1>1, <1>2, <1>4, FlagsKept

LEMMA ClaimFailsFlags ==
  ASSUME Basic, Flags, NEW va \in VA, NEW tier, ClaimFails(va, tier)
  PROVE  Flags'
<1>0. stack' = stack /\ wpc' = wpc
  BY DEF ClaimFails
<1>1. CASE UNCHANGED <<hk, mh, busy, flawed>>
  BY <1>0, <1>1, FlagsKept
<1>2. ASSUME NEW rec \in AllocRec,
             hk' = [hk EXCEPT ![rec] = [ZeroRec EXCEPT !.tier = tier, !.va = va]],
             busy' = [busy EXCEPT ![rec] = FALSE]
      PROVE  Flags'
  <2>1. rec \in Rec /\ ~hk[rec].used
    BY Allocated DEF Basic
  <2>2. \A r \in Rec \ {rec} : hk'[r] = hk[r]
    BY <1>2, <2>1 DEF Basic, Types
  <2>3. \A r \in Rec : busy'[r] = IF r = rec THEN FALSE ELSE busy[r]
    BY <1>2, <2>1 DEF Basic, Types
  <2>4. QED
    BY <1>0, <2>1, <2>2, <2>3, FlagsKept
<1>3. QED
  BY <1>1, <1>2 DEF ClaimFails

IInv == Basic /\ Records /\ Flags

LEMMA InitIInv == Init => IInv
<1> SUFFICES ASSUME Init PROVE IInv
  OBVIOUS
<1>1. Types
  <2>1. hk \in [Rec -> HookRec]
    BY ZeroIs DEF Init
  <2>2. reg \in [RegId -> Registration]
    BY DEF Init, Registration, Handle
  <2>3. stack = <<>> /\ stack \in Seq(Pass)
    BY DEF Init
  <2>4. QED
    BY <2>1, <2>2, <2>3 DEF Init, Types
<1>2. RefsFew
  BY FS_EmptySet DEF Init, RefsFew
<1>3. FromSlot /\ DOMAIN stack = {}
  BY DEF Init, FromSlot
<1>4. Led /\ Given
  BY DEF Init, Led, Given, RegId
<1>5. Ids
  BY DEF Init, Ids, ZeroRec, Free
<1>6. Records
  BY DEF Init, Records, Distinct, BelowUsed, LedToUsed, LedHome, ZeroRec
<1>7. Flags
  BY <1>3 DEF Init, Flags, Flagged, HasFlag, Alone, FlagUsed, Rec
<1>8. QED
  BY <1>1, <1>2, <1>3, <1>4, <1>5, <1>6, <1>7 DEF IInv, Basic

LEMMA StepIInv == IInv /\ [Next]_vars => IInv'
<1> SUFFICES ASSUME IInv, [Next]_vars PROVE IInv'
  OBVIOUS
<1>0. Basic /\ Records /\ Flags
  BY DEF IInv
<1>1. ASSUME NEW m \in Mods, NEW va \in VA, NEW native \in BOOLEAN, EntryJoins(m, va, native)
      PROVE  IInv'
  <2>1. Basic'
    BY <1>0, <1>1, Joins
  <2>2. \A r \in Rec : hk'[r].used = hk[r].used /\ hk'[r].va = hk[r].va
    BY <1>0, <1>1, JoinSlot
  <2>3. UNCHANGED <<mh, flawed, busy, stack, wpc>>
    BY <1>1 DEF EntryJoins
  <2>4. QED
    BY <1>0, <2>1, <2>2, <2>3, RecordsKept, FlagsKept DEF IInv
<1>2. ASSUME NEW m \in Mods, NEW va \in VA, NEW native \in BOOLEAN, EntryClaims(m, va, native)
      PROVE  IInv'
  <2>1. Basic'
    BY <1>0, <1>2, Claims
  <2>2. PICK rec \in AllocRec : \E cb : Claim(va, rec, 1, cb)
    BY <1>2 DEF EntryClaims
  <2>3. RecForVa(va) = {} /\ stack' = stack /\ wpc' = wpc
    BY <1>2 DEF EntryClaims
  <2>4. QED
    BY <1>0, <2>1, <2>2, <2>3, ClaimRecords, ClaimFlags DEF IInv
<1>3. ASSUME NEW m \in Mods, NEW va \in VA, Typed(m, va)
      PROVE  IInv'
  <2>1. Basic'
    BY <1>0, <1>3, TypedKeeps
  <2>2. PICK rec \in AllocRec : Claim(va, rec, 2, ZeroRec.cb)
    BY <1>3 DEF Typed
  <2>3. RecForVa(va) = {} /\ stack' = stack /\ wpc' = wpc
    BY <1>3 DEF Typed
  <2>4. QED
    BY <1>0, <2>1, <2>2, <2>3, ClaimRecords, ClaimFlags DEF IInv
<1>4. ASSUME NEW n \in RegId, RemoveHandle(n)
      PROVE  IInv'
  <2>1. Basic'
    BY <1>0, <1>4, RemoveKeeps
  <2>2. \A r \in Rec : hk'[r].used = hk[r].used /\ hk'[r].va = hk[r].va
    BY <1>0, <1>4, RemoveSlot
  <2>3. UNCHANGED <<mh, flawed, busy, stack, wpc>>
    BY <1>4 DEF RemoveHandle
  <2>4. QED
    BY <1>0, <2>1, <2>2, <2>3, RecordsKept, FlagsKept DEF IInv
<1>5. ASSUME NEW va \in VA, NEW tier \in {1, 2}, ClaimFails(va, tier)
      PROVE  IInv'
  <2>1. Basic' /\ Records'
    BY <1>0, <1>5, ClaimFailsKeeps, ClaimFailsRecords
  <2>2. Flags'
    BY <1>0, <1>5, ClaimFailsFlags
  <2>3. QED
    BY <2>1, <2>2 DEF IInv
<1>6. ASSUME NEW va \in VA, Call(va)
      PROVE  IInv'
  <2>1. Basic' /\ Flags'
    BY <1>0, <1>6, CallKeeps, CallFlags
  <2>2. Records'
    BY <1>0, <1>6, RecordsKept DEF Call, recVars
  <2>3. QED
    BY <2>1, <2>2 DEF IInv
<1>7. ASSUME Run \/ Return \/ DispatchEnd
      PROVE  IInv'
  <2>1. Basic' /\ Flags'
    BY <1>0, <1>7, RunKeeps, ReturnKeeps, DispatchEndKeeps, TopFlags, DispatchEndFlags
  <2>2. Records'
    BY <1>0, <1>7, RecordsKept DEF Run, Return, DispatchEnd, recVars
  <2>3. QED
    BY <2>1, <2>2 DEF IInv
<1>8. ASSUME Fault
      PROVE  IInv'
  <2>1. Basic' /\ Flags'
    BY <1>0, <1>8, FaultKeeps, TopFlags
  <2>2. UNCHANGED <<mh, flawed>>
    BY <1>8 DEF Fault
  <2>3. Records'
    BY <1>0, <1>8, <2>2, FaultSlot, RecordsKept
  <2>4. QED
    BY <2>1, <2>3 DEF IInv
<1>9. ASSUME NEW w \in Workers, Worker(w)
      PROVE  IInv'
  <2>1. Basic' /\ Flags'
    BY <1>0, <1>9, WorkerKeeps, WorkerFlags
  <2>2. Records'
    BY <1>0, <1>9, RecordsKept DEF Worker, WorkerLeaves, WorkerEnters, recVars
  <2>3. QED
    BY <2>1, <2>2 DEF IInv
<1>10. CASE UNCHANGED vars
  <2>1. Basic'
    BY <1>0, <1>10 DEF vars, recVars, regVars, Basic, Types, RefsFew, FromSlot, Led, Given, Ids
  <2>2. UNCHANGED <<hk, mh, flawed, busy, stack, wpc>>
    BY <1>10 DEF vars, recVars, regVars
  <2>3. QED
    BY <1>0, <2>1, <2>2, RecordsKept, FlagsKept DEF IInv
<1>11. QED
  BY <1>1, <1>2, <1>3, <1>4, <1>5, <1>6, <1>7, <1>8, <1>9, <1>10 DEF Next, ModCall, Dispatch

\* Whatever mods, game and workers do, records, flags and registrations agree.
THEOREM Invariant == Spec => []IInv
BY InitIInv, StepIInv, PTL DEF Spec

LEMMA TypesOf == IInv => TypeOK
<1> SUFFICES ASSUME IInv PROVE TypeOK
  OBVIOUS
<1>1. Types /\ FromSlot /\ Given
  BY DEF IInv, Basic
<1>2. \A r \in Rec :
         /\ hk[r].used \in BOOLEAN /\ hk[r].tier \in 0..2 /\ hk[r].va \in VA \cup {NoVA}
         /\ hk[r].cb \in [Slot -> [used : BOOLEAN, native : BOOLEAN,
                                   ref : Ref \cup {0}, id : RegId \cup {0}]]
  BY <1>1 DEF Types, HookRec, Cb
<1>3. \A n \in 1..nregs :
         /\ reg[n].mod \in Mods /\ reg[n].native \in BOOLEAN /\ reg[n].handle \in Rec \X Slot
         /\ reg[n].state \in {"live", "removed", "faulted"} /\ reg[n].by \in 0..nregs
  <2> SUFFICES ASSUME NEW n \in 1..nregs
               PROVE  /\ reg[n].mod \in Mods /\ reg[n].native \in BOOLEAN /\ reg[n].handle \in Rec \X Slot
                      /\ reg[n].state \in {"live", "removed", "faulted"} /\ reg[n].by \in 0..nregs
    OBVIOUS
  <2>1. nregs \in 0..MaxRegs /\ n \in RegId /\ n <= nregs
    BY <1>1 DEF Types, RegId
  <2>2. reg[n] \in Registration
    BY <1>1, <2>1 DEF Types
  <2>3. QED
    BY <1>1, <2>1, <2>2 DEF Given, Registration, RegId
<1>4. \A k \in DOMAIN stack :
         /\ stack[k].rec \in Rec /\ stack[k].va \in VA /\ stack[k].i \in 1..MAX_CB + 1
         /\ stack[k].running \in 0..nregs
  BY <1>1, StackIs DEF FromSlot, Pass, RegId, Types
<1>5. QED
  BY <1>1, <1>2, <1>3, <1>4 DEF TypeOK, Types

\* Records, chains, registrations and dispatches keep their types.
THEOREM WellTyped == Spec => []TypeOK
BY Invariant, TypesOf, PTL


\* The holders of a flag, counted.
LEMMA HoldersOf == IInv => BusyHeld
<1> SUFFICES ASSUME IInv, NEW r \in Rec
             PROVE  LET held == {<<"engine", k>> : k \in {j \in DOMAIN stack : stack[j].rec = r}}
                                 \cup {<<w, 0>> : w \in {v \in Workers : wpc[v] = r}}
                    IN  Cardinality(held) = (IF busy[r] THEN 1 ELSE 0)
  BY DEF BusyHeld
<1> DEFINE held == {<<"engine", k>> : k \in {j \in DOMAIN stack : stack[j].rec = r}}
                    \cup {<<w, 0>> : w \in {v \in Workers : wpc[v] = r}}
<1>1. Flagged /\ Alone /\ r # 0
  BY DEF IInv, Flags, Rec
<1>2. CASE ~busy[r]
  <2>1. held = {}
    BY <1>1, <1>2 DEF Flagged, HasFlag
  <2>2. QED
    BY <1>2, <2>1, FS_EmptySet
<1>3. CASE busy[r]
  <2>1. \E x : held = {x}
    <3>1. CASE \E k \in DOMAIN stack : stack[k].rec = r
      <4>1. PICK k \in DOMAIN stack : stack[k].rec = r
        BY <3>1
      <4>2. held = {<<"engine", k>>}
        BY <1>1, <4>1 DEF Alone
      <4>3. QED
        BY <4>2
    <3>2. CASE \E w \in Workers : wpc[w] = r
      <4>1. PICK w \in Workers : wpc[w] = r
        BY <3>2
      <4>2. held = {<<w, 0>>}
        BY <1>1, <4>1 DEF Alone
      <4>3. QED
        BY <4>2
    <3>3. QED
      BY <1>1, <1>3, <3>1, <3>2 DEF Flagged, HasFlag
  <2> HIDE DEF held
  <2>2. Cardinality(held) = 1
    BY <2>1, FS_Singleton
  <2>3. QED
    BY <1>3, <2>2 DEF held
<1>4. QED
  BY <1>2, <1>3

\* The flag of a record is set exactly while one dispatch or one worker is inside
\* its thunk: the early returns of hook_dispatch (core/hooks.c:97-98) neither strand
\* it nor release somebody else's, whether mods are tidy or not.
THEOREM FlagsHeld == Spec => []BusyHeld
BY Invariant, HoldersOf, PTL

LEMMA HomeOf == IInv => OneRecordPerVa
<1> SUFFICES ASSUME IInv PROVE OneRecordPerVa
  OBVIOUS
<1>1. Distinct /\ Led /\ LedToUsed /\ LedHome
  BY DEF IInv, Basic, Records
<1>2. ASSUME NEW va \in VA \ flawed, mh[va].state = "enabled"
      PROVE  RecForVa(va) = {mh[va].rec}
  <2>1. mh[va].rec \in Rec /\ hk[mh[va].rec].used /\ hk[mh[va].rec].va = va
    BY <1>1, <1>2 DEF Led, LedToUsed, LedHome
  <2>2. QED
    BY <1>1, <2>1 DEF Distinct, RecForVa
<1>3. QED
  BY <1>1, <1>2 DEF OneRecordPerVa, Distinct

\* No two records claim an address, and MinHook leads an address whose hook could
\* always be enabled to the record that claims it (find_or_create, core/hooks.c:145-166).
THEOREM OneRecord == Spec => []OneRecordPerVa
BY Invariant, HomeOf, PTL

-----------------------------------------------------------------------------
(***************************************************************************)
(* Chains, for tidy mods: a live registration sits in the slot its handle  *)
(* names, a used slot holds a live registration, and the references in use *)
(* are those of the live Lua observers, one each.                          *)
(***************************************************************************)
At(n) == hk[reg[n].handle[1]].cb[reg[n].handle[2]]
Lua == {n \in RegId : reg[n].state = "live" /\ ~reg[n].native}

InUsed == \A r \in Rec, s \in Slot : hk[r].cb[s].used => hk[r].used

Sits == \A n \in RegId : reg[n].state = "live" =>
           At(n).used /\ At(n).id = n /\ At(n).native = reg[n].native

Names(r, s, n) == n \in RegId /\ reg[n].state = "live" /\ reg[n].handle = <<r, s>>
Named == \A r \in Rec, s \in Slot : hk[r].cb[s].used => Names(r, s, hk[r].cb[s].id)

RefsInUse == /\ \A n \in Lua : At(n).ref \in refs
             /\ \A x \in refs : \E n \in Lua : At(n).ref = x
RefsApart == \A m, n \in Lua : At(m).ref = At(n).ref => m = n

EndsItself == \A n \in RegId : reg[n].by \in {0, n}

Chains == InUsed /\ Sits /\ Named /\ RefsInUse /\ RefsApart /\ EndsItself

\* An observer that runs was called from the slot its handle names.
Called == \A k \in DOMAIN stack : stack[k].running # 0 =>
             reg[stack[k].running].handle = <<stack[k].rec, stack[k].i>>

\* Where a live observer's handle says it is.
LEMMA AtHandle ==
  ASSUME Chains, NEW n \in RegId, reg[n].state = "live", NEW r, NEW t, reg[n].handle = <<r, t>>
  PROVE  /\ At(n) = hk[r].cb[t]
         /\ hk[r].cb[t].used /\ hk[r].cb[t].id = n /\ hk[r].cb[t].native = reg[n].native
<1>1. Sits
  BY DEF Chains
<1>2. At(n).used /\ At(n).id = n /\ At(n).native = reg[n].native
  BY <1>1 DEF Sits
<1>3. At(n) = hk[r].cb[t]
  BY DEF At
<1>4. QED
  BY <1>2, <1>3

\* The slots a step leaves alone, those without an observer included.
SameSlot(r, t) == hk'[r].cb[t] = hk[r].cb[t] \/ (~hk'[r].cb[t].used /\ ~hk[r].cb[t].used)

LEMMA ChainsKept ==
  ASSUME Basic, Chains, UNCHANGED regVars,
         \A r \in Rec : hk[r].used => hk'[r].used,
         \A r \in Rec, t \in Slot : SameSlot(r, t)
  PROVE  Chains'
<1>0. UNCHANGED <<nregs, reg, refs>>
  BY DEF regVars
<1>1. ASSUME NEW n \in RegId, reg[n].state = "live"
      PROVE  At(n)' = At(n)
  <2>1. reg[n].handle \in Rec \X Slot
    BY <1>1 DEF Basic, Given
  <2>2. reg[n].handle[1] \in Rec /\ reg[n].handle[2] \in Slot
    BY <2>1
  <2>3. At(n).used
    BY <1>1 DEF Chains, Sits
  <2>4. QED
    BY <1>0, <2>2, <2>3 DEF SameSlot, At
<1>2. InUsed'
  BY DEF Chains, InUsed, SameSlot
<1>3. Sits'
  BY <1>0, <1>1 DEF Chains, Sits
<1>4. Named'
  BY <1>0 DEF Chains, Named, Names, SameSlot
<1>5. Lua' = Lua
  BY <1>0 DEF Lua
<1>6. RefsInUse' /\ RefsApart'
  <2>1. \A n \in Lua : At(n)' = At(n)
    BY <1>1 DEF Lua
  <2>2. QED
    BY <1>0, <1>5, <2>1 DEF Chains, RefsInUse, RefsApart
<1>7. EndsItself'
  BY <1>0 DEF Chains, EndsItself
<1>8. QED
  BY <1>2, <1>3, <1>4, <1>6, <1>7 DEF Chains

\* A registration takes a slot without an observer.
LEMMA ChainsGrow ==
  ASSUME Basic, Chains, nregs < MaxRegs, NEW m \in Mods, NEW native \in BOOLEAN,
         NEW rec \in Rec, NEW s \in Slot, NEW old \in Cb,
         Registered(m, native, <<rec, s>>),
         ~hk[rec].cb[s].used, hk'[rec].used, hk'[rec].cb[s] = Observer(native, old),
         \A r \in Rec : hk[r].used => hk'[r].used,
         \A r \in Rec, t \in Slot : r # rec \/ t # s => SameSlot(r, t)
  PROVE  Chains'
<1> DEFINE o == Observer(native, old)
<1>0. PICK N : N = nregs + 1
  OBVIOUS
<1>1. /\ N \in RegId /\ reg[N].state # "live"
  <2>1. nregs \in 0..MaxRegs
    BY DEF Basic, Types
  <2>2. N \in RegId /\ ~(N <= nregs)
    BY <1>0, <2>1 DEF RegId
  <2>3. QED
    BY <2>2 DEF Basic, Given
<1>2. /\ reg'[N].state = "live" /\ reg'[N].handle = <<rec, s>> /\ reg'[N].native = native
      /\ reg'[N].by = 0
      /\ \A n \in RegId \ {N} : reg'[n] = reg[n]
  BY <1>0, <1>1 DEF Registered, Basic, Types
<1>3. o.used /\ o.id = N /\ o.native = native
  BY <1>0, ObserverIs
<1>4. refs' = IF native THEN refs ELSE refs \cup {NewRef}
  BY DEF Registered
<1>5. ~native => o.ref = NewRef /\ NewRef \notin refs
  BY NewRefFree DEF Observer, Basic
<1>a. hk'[rec].cb[s] = o
  OBVIOUS
<1> HIDE DEF o
<1>6. At(N)' = o
  BY <1>2, <1>a DEF At
<1>7. ASSUME NEW n \in RegId, reg[n].state = "live"
      PROVE  At(n)' = At(n) /\ reg'[n] = reg[n] /\ n # N
  <2>1. n # N /\ reg'[n] = reg[n]
    BY <1>1, <1>2, <1>7
  <2>2. reg[n].handle \in Rec \X Slot /\ At(n).used
    BY <1>7 DEF Basic, Given, Chains, Sits
  <2>3. reg[n].handle[1] \in Rec /\ reg[n].handle[2] \in Slot
    BY <2>2
  <2>4. reg[n].handle[1] # rec \/ reg[n].handle[2] # s
    BY <2>2 DEF At
  <2>5. QED
    BY <2>1, <2>2, <2>3, <2>4 DEF At, SameSlot
<1>8. \A n \in RegId : reg'[n].state = "live" <=> n = N \/ reg[n].state = "live"
  BY <1>1, <1>2
<1>9. InUsed'
  BY DEF Chains, InUsed, SameSlot
<1>10. Sits'
  BY <1>2, <1>3, <1>6, <1>7, <1>8 DEF Chains, Sits
<1>11. Named'
  <2> SUFFICES ASSUME NEW r \in Rec, NEW t \in Slot, hk'[r].cb[t].used
               PROVE  Names(r, t, hk[r].cb[t].id)'
    BY DEF Named
  <2>1. CASE r = rec /\ t = s
    BY <1>1, <1>2, <1>3, <1>a, <2>1 DEF Names
  <2>2. CASE r # rec \/ t # s
    <3>1. PICK n : n = hk[r].cb[t].id
      OBVIOUS
    <3>2. hk'[r].cb[t].id = n /\ Names(r, t, n)
      BY <2>2, <3>1 DEF SameSlot, Chains, Named
    <3>3. reg'[n] = reg[n]
      BY <1>7, <3>2 DEF Names
    <3>4. QED
      BY <3>2, <3>3 DEF Names
  <2>3. QED
    BY <2>1, <2>2
<1>12. Lua' = IF native THEN Lua ELSE Lua \cup {N}
  BY <1>1, <1>2, <1>7, <1>8 DEF Lua
<1>13. \A n \in Lua : At(n)' = At(n) /\ n # N
  BY <1>7 DEF Lua
<1>14. RefsInUse'
  BY <1>4, <1>5, <1>6, <1>12, <1>13 DEF Chains, RefsInUse
<1>15. RefsApart'
  BY <1>5, <1>6, <1>12, <1>13 DEF Chains, RefsInUse, RefsApart
<1>16. EndsItself'
  BY <1>2 DEF Chains, EndsItself
<1>17. QED
  BY <1>9, <1>10, <1>11, <1>14, <1>15, <1>16 DEF Chains

\* A live registration ends, and its observer leaves its slot.
LEMMA ChainsShrink ==
  ASSUME Basic, Chains, NEW n \in RegId, reg[n].state = "live", NEW rec \in Rec, NEW s \in Slot,
         reg[n].handle = <<rec, s>>, NEW st \in {"removed", "faulted"},
         reg' = Ended(n, st, n), nregs' = nregs,
         hk' = WithSlot(rec, s, [hk[rec].cb[s] EXCEPT !.used = FALSE]),
         refs' = IF reg[n].native THEN refs ELSE refs \ {hk[rec].cb[s].ref}
  PROVE  Chains'
<1>1. /\ reg'[n].state # "live" /\ reg'[n].native = reg[n].native /\ reg'[n].by = n
      /\ \A x \in RegId \ {n} : reg'[x] = reg[x]
  BY DEF Ended, Basic, Types, Registration
<1>2. /\ \A r \in Rec : hk'[r].used = hk[r].used
      /\ hk'[rec].cb[s] = [hk[rec].cb[s] EXCEPT !.used = FALSE]
      /\ \A r \in Rec, t \in Slot : r # rec \/ t # s => hk'[r].cb[t] = hk[r].cb[t]
  BY EmptiedIs
<1>3. ~hk'[rec].cb[s].used
  <2>1. hk[rec].cb[s] \in Cb
    BY DEF Basic, Types, HookRec
  <2>2. QED
    BY <1>2, <2>1 DEF Cb
<1>4. At(n) = hk[rec].cb[s] /\ At(n).id = n
  BY AtHandle
<1>5. ASSUME NEW x \in RegId, reg'[x].state = "live"
      PROVE  x # n /\ reg'[x] = reg[x] /\ reg[x].state = "live" /\ At(x)' = At(x)
  <2>1. x # n /\ reg'[x] = reg[x] /\ reg[x].state = "live"
    BY <1>1, <1>5
  <2>2. reg[x].handle \in Rec \X Slot /\ At(x).id = x
    BY <2>1 DEF Basic, Given, Chains, Sits
  <2>3. reg[x].handle[1] \in Rec /\ reg[x].handle[2] \in Slot
    BY <2>2
  <2>4. reg[x].handle[1] # rec \/ reg[x].handle[2] # s
    BY <1>4, <2>1, <2>2 DEF At
  <2>5. hk'[reg[x].handle[1]].cb[reg[x].handle[2]] = hk[reg[x].handle[1]].cb[reg[x].handle[2]]
    BY <1>2, <2>3, <2>4
  <2>6. QED
    BY <2>1, <2>5 DEF At
<1>6. \A x \in RegId \ {n} : reg[x].state = "live" => reg'[x].state = "live"
  BY <1>1
<1>7. InUsed'
  <2>1. InUsed
    BY DEF Chains
  <2>2. ASSUME NEW r \in Rec, NEW t \in Slot, hk'[r].cb[t].used PROVE hk'[r].used
    <3>1. r # rec \/ t # s
      BY <1>3, <2>2
    <3>2. hk[r].cb[t].used
      BY <1>2, <2>2, <3>1
    <3>3. QED
      BY <1>2, <2>1, <3>2 DEF InUsed
  <2>3. QED
    BY <2>2 DEF InUsed
<1>8. Sits'
  BY <1>5 DEF Chains, Sits
<1>9. Named'
  <2> SUFFICES ASSUME NEW r \in Rec, NEW t \in Slot, hk'[r].cb[t].used
               PROVE  Names(r, t, hk[r].cb[t].id)'
    BY DEF Named
  <2>1. r # rec \/ t # s
    BY <1>3
  <2>2. hk'[r].cb[t] = hk[r].cb[t] /\ Names(r, t, hk[r].cb[t].id)
    BY <1>2, <2>1 DEF Chains, Named
  <2>3. hk[r].cb[t].id # n
    <3>1. CASE hk[r].cb[t].id = n
      <4>1. reg[n].handle = <<r, t>>
        BY <2>2, <3>1 DEF Names
      <4>2. <<r, t>> = <<rec, s>>
        BY <4>1
      <4>3. QED
        BY <2>1, <4>2
    <3>2. QED
      BY <3>1
  <2>4. reg'[hk[r].cb[t].id] = reg[hk[r].cb[t].id]
    BY <1>1, <2>2, <2>3 DEF Names
  <2>5. QED
    BY <2>2, <2>4 DEF Names
<1>10. Lua' = Lua \ {n}
  BY <1>1, <1>5, <1>6 DEF Lua
<1>11. \A x \in Lua \ {n} : At(x)' = At(x)
  BY <1>5, <1>6 DEF Lua
<1>12. RefsApart'
  BY <1>10, <1>11 DEF Chains, RefsApart
<1>13. RefsInUse'
  <2>1. CASE reg[n].native
    <3>1. n \notin Lua /\ refs' = refs
      BY <2>1 DEF Lua
    <3>2. QED
      BY <1>10, <1>11, <3>1 DEF Chains, RefsInUse
  <2>2. CASE ~reg[n].native
    <3>1. n \in Lua /\ refs' = refs \ {At(n).ref}
      BY <1>4, <2>2 DEF Lua
    <3>2. \A x \in Lua \ {n} : At(x).ref # At(n).ref
      BY <3>1 DEF Chains, RefsApart
    <3>3. QED
      BY <1>10, <1>11, <3>1, <3>2 DEF Chains, RefsInUse
  <2>3. QED
    BY <2>1, <2>2
<1>14. EndsItself'
  BY <1>1 DEF Chains, EndsItself
<1>15. QED
  BY <1>7, <1>8, <1>9, <1>12, <1>13, <1>14 DEF Chains

\* A step keeps the handles, and the dispatches whose observer still runs.
LEMMA CalledKept ==
  ASSUME Basic, Called, \A n \in RegId : n <= nregs => reg'[n].handle = reg[n].handle,
         \A k \in DOMAIN stack' : stack'[k].running # 0 => k \in DOMAIN stack /\ stack'[k] = stack[k]
  PROVE  Called'
<1> SUFFICES ASSUME NEW k \in DOMAIN stack', stack'[k].running # 0
             PROVE  reg'[stack'[k].running].handle = <<stack'[k].rec, stack'[k].i>>
  BY DEF Called
<1>1. k \in DOMAIN stack /\ stack'[k] = stack[k] /\ stack[k].running # 0
  OBVIOUS
<1>2. stack[k].running \in RegId /\ stack[k].running <= nregs
  BY <1>1, StackIs DEF Basic, FromSlot, Pass
<1>3. QED
  BY <1>1, <1>2 DEF Called

LEMMA RegisteredHandles ==
  ASSUME Basic, nregs < MaxRegs, NEW m, NEW native, NEW handle, Registered(m, native, handle)
  PROVE  \A n \in RegId : n <= nregs => reg'[n].handle = reg[n].handle
BY DEF Registered, Basic, Types, RegId

LEMMA EndedHandles ==
  ASSUME Basic, NEW k, NEW st, NEW x, reg' = Ended(k, st, x)
  PROVE  \A n \in RegId : n <= nregs => reg'[n].handle = reg[n].handle
BY DEF Ended, Basic, Types, Registration

Tidied == IInv /\ Chains /\ Called

LEMMA JoinsTidy ==
  ASSUME Tidied, NEW m \in Mods, NEW va \in VA, NEW native \in BOOLEAN, EntryJoins(m, va, native)
  PROVE  Chains' /\ Called'
<1>0. Basic /\ Chains /\ Called
  BY DEF Tidied, IInv
<1>1. PICK rec \in RecForVa(va) : \E s \in FreeSlot(rec) :
        /\ hk' = WithSlot(rec, s, Observer(native, hk[rec].cb[s]))
        /\ Registered(m, native, <<rec, s>>)
  BY DEF EntryJoins
<1>2. PICK s \in FreeSlot(rec) :
        /\ hk' = WithSlot(rec, s, Observer(native, hk[rec].cb[s]))
        /\ Registered(m, native, <<rec, s>>)
  BY <1>1
<1>3. rec \in Rec /\ s \in Slot /\ nregs < MaxRegs /\ hk[rec].used /\ ~hk[rec].cb[s].used
  BY SlotAllocated DEF RecForVa, EntryJoins
<1>4. PICK old \in Cb : old = hk[rec].cb[s]
  BY <1>0, <1>3 DEF Basic, Types, HookRec
<1>5. Observer(native, old) \in Cb /\ Types
  BY <1>0, <1>3, ObserverIs DEF Basic
<1>6. /\ hk'[rec].cb[s] = Observer(native, old)
      /\ \A r \in Rec : hk'[r].used = hk[r].used
      /\ \A r \in Rec, t \in Slot : r # rec \/ t # s => SameSlot(r, t)
  <2>1. PICK c \in Cb : c = Observer(native, old)
    BY <1>5
  <2>2. hk' = WithSlot(rec, s, c) /\ Types
    BY <1>2, <1>4, <1>5, <2>1
  <2>3. /\ hk'[rec].cb[s] = c
        /\ \A r \in Rec : hk'[r].used = hk[r].used
        /\ \A r \in Rec, t \in Slot : r # rec \/ t # s => hk'[r].cb[t] = hk[r].cb[t]
    BY <1>3, <2>2, SlotChanged
  <2>4. QED
    BY <2>1, <2>3 DEF SameSlot
<1>7. Chains'
  BY <1>0, <1>2, <1>3, <1>6, ChainsGrow
<1>8. Called'
  BY <1>0, <1>2, RegisteredHandles, CalledKept DEF EntryJoins
<1>9. QED
  BY <1>7, <1>8

LEMMA ClaimsTidy ==
  ASSUME Tidied, NEW m \in Mods, NEW va \in VA, NEW native \in BOOLEAN, EntryClaims(m, va, native)
  PROVE  Chains' /\ Called'
<1>0. Basic /\ Chains /\ Called
  BY DEF Tidied, IInv
<1> DEFINE cb == [ZeroRec.cb EXCEPT ![1] = Observer(native, Free)]
<1>1. PICK rec \in AllocRec : Claim(va, rec, 1, cb) /\ Registered(m, native, <<rec, 1>>)
  BY DEF EntryClaims
<1>2. rec \in Rec /\ ~hk[rec].used /\ 1 \in Slot /\ nregs < MaxRegs
  BY <1>0, Allocated DEF Basic, Slot, EntryClaims
<1>3. cb[1] = Observer(native, Free) /\ \A t \in Slot \ {1} : ~cb[t].used
  BY <1>2 DEF ZeroRec, Free
<1> HIDE DEF cb
<1>4. /\ hk'[rec].cb = cb /\ hk'[rec].used
      /\ \A r \in Rec \ {rec} : hk'[r] = hk[r]
  BY <1>0, <1>1, <1>2, ClaimSlots
<1>5. \A t \in Slot : ~hk[rec].cb[t].used
  BY <1>0, <1>2 DEF Chains, InUsed
<1>6. \A r \in Rec, t \in Slot : r # rec \/ t # 1 => SameSlot(r, t)
  BY <1>2, <1>3, <1>4, <1>5 DEF SameSlot
<1>7. Chains'
  <2>1. hk'[rec].cb[1] = Observer(native, Free) /\ Free \in Cb
    BY <1>3, <1>4, ZeroIs
  <2>2. \A r \in Rec : hk[r].used => hk'[r].used
    BY <1>2, <1>4
  <2>3. QED
    BY <1>0, <1>1, <1>2, <1>4, <1>5, <1>6, <2>1, <2>2, ChainsGrow
<1>8. Called'
  BY <1>0, <1>1, <1>2, RegisteredHandles, CalledKept DEF EntryClaims
<1>9. QED
  BY <1>7, <1>8

\* A record that was not in use has no observer, before and after a claim without one.
LEMMA UnusedTidy ==
  ASSUME Tidied, NEW rec \in Rec, ~hk[rec].used, \A t \in Slot : ~hk'[rec].cb[t].used,
         \A r \in Rec \ {rec} : hk'[r] = hk[r], UNCHANGED <<regVars, stack>>
  PROVE  Chains' /\ Called'
<1>0. Basic /\ Chains /\ Called /\ UNCHANGED regVars
  BY DEF Tidied, IInv
<1>1. \A t \in Slot : ~hk[rec].cb[t].used
  BY <1>0 DEF Chains, InUsed
<1>2. \A r \in Rec, t \in Slot : SameSlot(r, t)
  BY <1>1 DEF SameSlot
<1>3. Chains'
  BY <1>0, <1>2, ChainsKept
<1>4. Called'
  BY <1>0, CalledKept DEF regVars
<1>5. QED
  BY <1>3, <1>4

\* A step that changes neither records nor registrations.
LEMMA StillTidy ==
  ASSUME Tidied, UNCHANGED <<hk, regVars>>
  PROVE  Chains'
<1>1. \A r \in Rec, t \in Slot : SameSlot(r, t)
  BY DEF SameSlot
<1>2. QED
  BY <1>1, ChainsKept DEF Tidied, IInv

LEMMA RemoveTidy ==
  ASSUME Tidied, Tidy, NEW n \in RegId, RemoveHandle(n)
  PROVE  Chains' /\ Called'
<1>0. Basic /\ Chains /\ Called
  BY DEF Tidied, IInv
<1>1. reg[n].state = "live" /\ n <= nregs
  BY <1>0 DEF RemoveHandle, MayRemove, Basic, Given
<1>2. PICK rec \in Rec, s \in Slot : reg[n].handle = <<rec, s>>
  BY <1>0, <1>1 DEF Basic, Given
<1>3. hk[rec].cb[s].id = n /\ hk[rec].cb[s].native = reg[n].native
  BY <1>0, <1>1, <1>2, AtHandle
<1>4. reg' = Ended(n, "removed", n)
  BY <1>2, <1>3 DEF RemoveHandle
<1>5. /\ hk' = WithSlot(rec, s, [hk[rec].cb[s] EXCEPT !.used = FALSE])
      /\ refs' = IF reg[n].native THEN refs ELSE refs \ {hk[rec].cb[s].ref}
      /\ nregs' = nregs /\ stack' = stack
  BY <1>2, <1>3 DEF RemoveHandle, Released
<1>6. Chains'
  BY <1>0, <1>1, <1>2, <1>4, <1>5, ChainsShrink
<1>7. Called'
  BY <1>0, <1>4, <1>5, EndedHandles, CalledKept
<1>8. QED
  BY <1>6, <1>7

LEMMA CallTidy ==
  ASSUME Tidied, NEW va \in VA, Call(va)
  PROVE  Chains' /\ Called'
<1>0. Basic /\ Called /\ UNCHANGED <<hk, regVars>>
  BY DEF Tidied, IInv, Call, recVars
<1>1. mh[va].rec \in Rec
  BY <1>0 DEF Call, Enters, Basic, Led
<1>2. PICK pass \in Pass : stack' = Append(stack, pass) /\ pass.running = 0
  <2> DEFINE p == [rec |-> mh[va].rec, va |-> va, i |-> 1, running |-> 0, called |-> {},
                   due |-> {n \in 1..nregs : reg[n].state = "live" /\ reg[n].handle[1] = mh[va].rec}]
  <2>1. p \in Pass /\ p.running = 0
    BY <1>0, <1>1 DEF Pass, Basic, Types, RegId
  <2>2. stack' = Append(stack, p)
    BY DEF Call
  <2>3. QED
    BY <2>1, <2>2
<1>3. /\ DOMAIN stack = 1..Len(stack) /\ Len(stack) \in Nat
      /\ DOMAIN stack' = 1..Len(stack) + 1 /\ stack'[Len(stack) + 1] = pass
      /\ \A k \in DOMAIN stack : stack'[k] = stack[k]
  BY <1>0, <1>2, StackIs, Pushed DEF Basic
<1>4. \A k \in DOMAIN stack' : stack'[k].running # 0 => k \in DOMAIN stack /\ stack'[k] = stack[k]
  BY <1>2, <1>3
<1>5. Called'
  BY <1>0, <1>4, CalledKept DEF regVars
<1>6. QED
  BY <1>0, <1>5, StillTidy

\* The observer a dispatch calls is the one whose handle names the slot.
LEMMA RunTidy ==
  ASSUME Tidied, Run
  PROVE  Chains' /\ Called'
<1>0. Basic /\ Chains /\ Called /\ UNCHANGED <<hk, regVars>>
  BY DEF Tidied, IInv, Run, recVars
<1> DEFINE s == Least(NextSlot)
           p == stack[Len(stack)]
           n == hk[p.rec].cb[s].id
           pass == [p EXCEPT !.i = s, !.running = n, !.called = p.called \cup {n}]
<1>1. stack # <<>> /\ p \in Pass /\ Top = p /\ Types
  BY <1>0, StackIs DEF Run, Basic, Top, Last
<1>2. s \in Slot /\ hk[p.rec].cb[s].used
  BY <1>1, SlotNext DEF Run
<1>3. reg[n].handle = <<p.rec, s>>
  BY <1>0, <1>1, <1>2 DEF Chains, Named, Names, Pass
<1>4. stack' = [stack EXCEPT ![Len(stack)] = pass]
  BY <1>1 DEF Run
<1>5. pass.i = s /\ pass.running = n /\ pass.rec = p.rec
  BY <1>1 DEF Pass
<1>6. /\ DOMAIN stack' = DOMAIN stack /\ stack'[Len(stack)] = pass
      /\ \A k \in DOMAIN stack : k # Len(stack) => stack'[k] = stack[k]
  <2> HIDE DEF pass
  <2>1. Len(stack) \in DOMAIN stack /\ stack \in Seq(Pass)
    BY <1>1, StackIs DEF Types
  <2>2. QED
    BY <1>4, <2>1
<1>7. reg' = reg
  BY <1>0 DEF regVars
<1>8. Called'
  <2> HIDE DEF pass, n, s
  <2>1. QED
    BY <1>0, <1>3, <1>5, <1>6, <1>7 DEF Called
<1>9. QED
  BY <1>0, <1>8, StillTidy

LEMMA ReturnTidy ==
  ASSUME Tidied, stack # <<>>, \A k \in RegId : k <= nregs => reg'[k].handle = reg[k].handle,
         stack' = [stack EXCEPT ![Len(stack)] = [Top EXCEPT !.i = Top.i + 1, !.running = 0]]
  PROVE  Called'
<1>1. Basic /\ Called /\ Types
  BY DEF Tidied, IInv, Basic
<1>2. Top \in Pass /\ Len(stack) \in DOMAIN stack
  BY <1>1, StackIs DEF Top, Last
<1> DEFINE pass == [Top EXCEPT !.i = Top.i + 1, !.running = 0]
<1>3. pass.running = 0
  BY <1>2 DEF Pass
<1>4. stack' = [stack EXCEPT ![Len(stack)] = pass]
  OBVIOUS
<1> HIDE DEF pass
<1>5. /\ DOMAIN stack' = DOMAIN stack /\ stack'[Len(stack)] = pass
      /\ \A k \in DOMAIN stack : k # Len(stack) => stack'[k] = stack[k]
  BY <1>1, <1>2, <1>4 DEF Types
<1>6. \A k \in DOMAIN stack' : stack'[k].running # 0 => k \in DOMAIN stack /\ stack'[k] = stack[k]
  BY <1>3, <1>5
<1>7. QED
  BY <1>1, <1>6, CalledKept

LEMMA FaultTidy ==
  ASSUME Tidied, Tidy, Fault
  PROVE  Chains' /\ Called'
<1>0. Basic /\ Chains /\ Called
  BY DEF Tidied, IInv
<1>1. PICK n, rec, s : n = Top.running /\ rec = Top.rec /\ s = Top.i
  OBVIOUS
<1>2. rec \in Rec /\ s \in Slot /\ Top = stack[Len(stack)] /\ Top \in Pass
  BY <1>0, <1>1, FaultSlot
<1>3. n \in RegId /\ reg[n].state = "live" /\ ~reg[n].native
  BY <1>1, <1>2 DEF Fault, MayFault, Pass
<1>4. reg[n].handle = <<rec, s>>
  <2>1. Len(stack) \in DOMAIN stack
    BY <1>0, StackIs DEF Basic, Fault
  <2>2. stack[Len(stack)].running # 0
    BY <1>2 DEF Fault
  <2>3. QED
    BY <1>0, <1>1, <1>2, <2>1, <2>2 DEF Called
<1>5. hk[rec].cb[s].used /\ hk[rec].cb[s].id = n
  BY <1>0, <1>3, <1>4, AtHandle
<1>6. /\ hk' = WithSlot(rec, s, [hk[rec].cb[s] EXCEPT !.used = FALSE])
      /\ refs' = refs \ {hk[rec].cb[s].ref}
      /\ reg' = Ended(n, "faulted", n) /\ nregs' = nregs
  BY <1>1, <1>5 DEF Fault
<1>7. Chains'
  BY <1>0, <1>2, <1>3, <1>4, <1>6, ChainsShrink
<1>8. Called'
  BY <1>0, <1>6, EndedHandles, ReturnTidy DEF Fault
<1>9. QED
  BY <1>7, <1>8

LEMMA DispatchEndTidy ==
  ASSUME Tidied, DispatchEnd
  PROVE  Chains' /\ Called'
<1>0. Basic /\ Called /\ UNCHANGED <<hk, regVars>>
  BY DEF Tidied, IInv, DispatchEnd, recVars
<1>1. /\ DOMAIN stack = 1..Len(stack) /\ Len(stack) \in Nat
      /\ DOMAIN stack' = 1..Len(stack) - 1 /\ \A k \in DOMAIN stack' : stack'[k] = stack[k]
  BY <1>0, StackIs, Popped DEF Basic, DispatchEnd
<1>2. Called'
  BY <1>0, <1>1, CalledKept DEF regVars
<1>3. QED
  BY <1>0, <1>2, StillTidy

LEMMA InitTidied == Init => Tidied
<1> SUFFICES ASSUME Init PROVE Tidied
  OBVIOUS
<1>1. IInv
  BY InitIInv
<1>2. Lua = {} /\ \A n \in RegId : reg[n].state = "none" /\ reg[n].by = 0
  BY DEF Init, Lua
<1>3. \A r \in Rec, s \in Slot : ~hk[r].cb[s].used
  BY DEF Init, ZeroRec, Free
<1>4. Chains
  BY <1>2, <1>3 DEF Init, Chains, InUsed, Sits, Named, RefsInUse, RefsApart, EndsItself
<1>5. Called
  BY DEF Init, Called
<1>6. QED
  BY <1>1, <1>4, <1>5 DEF Tidied

LEMMA StepTidied == Tidy /\ Tidied /\ [Next]_vars => Tidied'
<1> SUFFICES ASSUME Tidy, Tidied, [Next]_vars PROVE Chains' /\ Called'
  BY StepIInv DEF Tidied
<1>0. Basic /\ Called
  BY DEF Tidied, IInv
<1>1. ASSUME NEW m \in Mods, NEW va \in VA, NEW native \in BOOLEAN, EntryJoins(m, va, native)
      PROVE  Chains' /\ Called'
  BY <1>1, JoinsTidy
<1>2. ASSUME NEW m \in Mods, NEW va \in VA, NEW native \in BOOLEAN, EntryClaims(m, va, native)
      PROVE  Chains' /\ Called'
  BY <1>2, ClaimsTidy
<1>3. ASSUME NEW m \in Mods, NEW va \in VA, Typed(m, va)
      PROVE  Chains' /\ Called'
  <2>1. PICK rec \in AllocRec : Claim(va, rec, 2, ZeroRec.cb)
    BY <1>3 DEF Typed
  <2>2. rec \in Rec /\ ~hk[rec].used
    BY <1>0, Allocated DEF Basic
  <2>3. hk'[rec].cb = ZeroRec.cb /\ \A r \in Rec \ {rec} : hk'[r] = hk[r]
    BY <1>0, <2>1, <2>2, ClaimSlots
  <2>4. \A t \in Slot : ~ZeroRec.cb[t].used
    BY DEF ZeroRec, Free
  <2>5. UNCHANGED <<regVars, stack>>
    BY <1>3 DEF Typed
  <2>6. QED
    BY <2>2, <2>3, <2>4, <2>5, UnusedTidy
<1>4. ASSUME NEW n \in RegId, RemoveHandle(n)
      PROVE  Chains' /\ Called'
  BY <1>4, RemoveTidy
<1>5. ASSUME NEW va \in VA, NEW tier \in {1, 2}, ClaimFails(va, tier)
      PROVE  Chains' /\ Called'
  <2>1. UNCHANGED <<regVars, stack>>
    BY <1>5 DEF ClaimFails
  <2>2. CASE hk' = hk
    <3>1. Called'
      BY <1>0, <2>1, CalledKept DEF regVars
    <3>2. QED
      BY <2>1, <2>2, <3>1, StillTidy
  <2>3. ASSUME NEW rec \in AllocRec,
               hk' = [hk EXCEPT ![rec] = [ZeroRec EXCEPT !.tier = tier, !.va = va]]
        PROVE  Chains' /\ Called'
    <3>1. rec \in Rec /\ ~hk[rec].used
      BY <1>0, Allocated DEF Basic
    <3>2. /\ \A t \in Slot : ~hk'[rec].cb[t].used
          /\ \A r \in Rec \ {rec} : hk'[r] = hk[r]
      BY <1>0, <2>3, <3>1 DEF Basic, Types, ZeroRec, Free
    <3>3. QED
      BY <2>1, <3>1, <3>2, UnusedTidy
  <2>4. QED
    BY <1>5, <2>2, <2>3 DEF ClaimFails
<1>6. ASSUME NEW va \in VA, Call(va)
      PROVE  Chains' /\ Called'
  BY <1>6, CallTidy
<1>7. CASE Run
  BY <1>7, RunTidy
<1>8. CASE Return
  <2>1. Called'
    BY <1>8, ReturnTidy DEF Return, regVars
  <2>2. QED
    BY <1>8, <2>1, StillTidy DEF Return, recVars
<1>9. CASE Fault
  BY <1>9, FaultTidy
<1>10. CASE DispatchEnd
  BY <1>10, DispatchEndTidy
<1>11. ASSUME UNCHANGED <<recVars, regVars, stack>>
       PROVE  Chains' /\ Called'
  <2>1. Called'
    BY <1>0, <1>11, CalledKept DEF regVars
  <2>2. QED
    BY <1>11, <2>1, StillTidy DEF recVars
<1>12. ASSUME NEW w \in Workers, Worker(w)
       PROVE  Chains' /\ Called'
  BY <1>11, <1>12 DEF Worker, WorkerLeaves, WorkerEnters
<1>13. CASE UNCHANGED vars
  BY <1>11, <1>13 DEF vars
<1>14. QED
  BY <1>1, <1>2, <1>3, <1>4, <1>5, <1>6, <1>7, <1>8, <1>9, <1>10, <1>12, <1>13
  DEF Next, ModCall, Dispatch

\* With tidy mods, slots, handles, references and running observers agree as well.
THEOREM TidyInvariant == Tidy /\ Spec => []Tidied
<1>1. Tidy => (Init /\ [][Next]_vars => []Tidied)
  <2> SUFFICES ASSUME Tidy PROVE Init /\ [][Next]_vars => []Tidied
    OBVIOUS
  <2>1. Tidied /\ [Next]_vars => Tidied'
    BY StepTidied
  <2>2. QED
    BY InitTidied, <2>1, PTL
<1>2. QED
  BY <1>1 DEF Spec

LEMMA EndsOwn == Tidied => OwnHookOnly
BY DEF Tidied, IInv, Basic, Types, Chains, EndsItself, OwnHookOnly, RegId

\* Every mod that ends a registration ends one of its own, when mods give a handle
\* back once and know when their observer was disabled (hooks.c:124-126, 201-212).
THEOREM NoOthersHook == Tidy /\ Spec => []OwnHookOnly
<1>1. Tidied => OwnHookOnly
  BY EndsOwn
<1>2. QED
  BY <1>1, TidyInvariant, PTL

LEMMA PlacesOf == Tidied => LiveInPlace
<1> SUFFICES ASSUME Tidied PROVE LiveInPlace
  OBVIOUS
<1> DEFINE at(n) == hk[reg[n].handle[1]].cb[reg[n].handle[2]]
           live == {n \in 1..nregs : reg[n].state = "live"}
           lua == {n \in live : ~at(n).native}
<1>0. IInv /\ Chains
  BY DEF Tidied
<1>1. OneRecordPerVa
  BY <1>0, HomeOf
<1>2. live = {n \in RegId : reg[n].state = "live"} /\ \A n : at(n) = At(n)
  <2>1. nregs \in 0..MaxRegs /\ \A n \in RegId : reg[n].state = "live" => n <= nregs
    BY <1>0 DEF IInv, Basic, Types, Given
  <2>2. QED
    BY <2>1 DEF At, RegId
<1>3. \A n \in live : at(n).used /\ at(n).id = n
  BY <1>0, <1>2 DEF Chains, Sits
<1>4. \A r \in Rec, s \in Slot : hk[r].cb[s].used => hk[r].cb[s].id \in live
  BY <1>0, <1>2 DEF Chains, Named, Names
<1>5. lua = Lua
  BY <1>0, <1>2 DEF Lua, Chains, Sits
<1>6. refs = {at(n).ref : n \in lua}
  <2>1. RefsInUse /\ \A n : at(n) = At(n)
    BY <1>0, <1>2 DEF Chains
  <2>2. refs = {At(n).ref : n \in Lua}
    BY <2>1 DEF RefsInUse
  <2>3. {at(n).ref : n \in lua} = {At(n).ref : n \in Lua}
    BY <1>5, <2>1
  <2>4. QED
    BY <2>2, <2>3
<1>7. Cardinality(refs) = Cardinality(lua)
  <2> DEFINE f == [n \in Lua |-> At(n).ref]
  <2>1. f \in [Lua -> refs] /\ \A m, n \in Lua : f[m] = f[n] => m = n
    BY <1>0 DEF Chains, RefsInUse, RefsApart
  <2>2. \A x \in refs : \E n \in Lua : f[n] = x
    BY <1>0 DEF Chains, RefsInUse
  <2> HIDE DEF f
  <2>3. f \in Bijection(Lua, refs)
    BY <2>1, <2>2 DEF Bijection, Injection, IsInjective, Surjection
  <2>4. IsFiniteSet(Lua)
    <3>1. IsFiniteSet(RegId) /\ Lua \subseteq RegId
      BY FS_Interval DEF RegId, Lua
    <3>2. QED
      BY <3>1, FS_Subset
  <2>5. QED
    <3>1. ExistsBijection(Lua, refs)
      BY <2>3 DEF ExistsBijection
    <3>2. Cardinality(refs) = Cardinality(Lua)
      BY <2>4, <3>1, FS_Bijection
    <3>3. QED
      BY <1>5, <3>2
<1> HIDE DEF at, live, lua
<1>8. QED
  BY <1>1, <1>3, <1>4, <1>6, <1>7 DEF LiveInPlace, at, live, lua

\* With tidy mods, every live registration sits in the slot its handle names, every
\* used slot holds one, and the Lua references in use are those of the live Lua
\* observers, one each (core/hooks.c:118-126, 177-208).
THEOREM InPlace == Tidy /\ Spec => []LiveInPlace
<1>1. Tidied => LiveInPlace
  BY PlacesOf
<1>2. QED
  BY <1>1, TidyInvariant, PTL
-----------------------------------------------------------------------------
(***************************************************************************)
(* Passes, for tidy mods: a dispatch goes through its chain from the front *)
(* to the back.  The observers it has called have their slots behind it;   *)
(* of those that were in the chain when it began, each is called, gone, or *)
(* still ahead.                                                            *)
(***************************************************************************)
Past(p, s) == IF p.running = 0 THEN s < p.i ELSE s <= p.i

Orderly(p) ==
    /\ \A n \in p.called : /\ n \in RegId /\ n <= nregs
                           /\ reg[n].handle[1] = p.rec /\ Past(p, reg[n].handle[2])
    /\ \A n \in p.due : /\ n \in RegId /\ n <= nregs /\ reg[n].handle[1] = p.rec
                        /\ reg[n].state = "live" => n \in p.called \/ ~Past(p, reg[n].handle[2])

Passes == \A k \in DOMAIN stack : Orderly(stack[k])

\* The registrations a step leaves behind: none changes its handle, none comes back.
Ages == /\ nregs' \in Nat /\ nregs <= nregs'
        /\ \A n \in RegId : n <= nregs => /\ reg'[n].handle = reg[n].handle
                                          /\ reg'[n].state = "live" => reg[n].state = "live"

LEMMA OrderlyKept ==
  ASSUME Basic, Ages, NEW p, Orderly(p)
  PROVE  /\ \A n \in p.called : /\ n \in RegId /\ n <= nregs'
                                /\ reg'[n].handle[1] = p.rec /\ Past(p, reg'[n].handle[2])
         /\ \A n \in p.due : /\ n \in RegId /\ n <= nregs' /\ reg'[n].handle[1] = p.rec
                             /\ reg'[n].state = "live" =>
                                    n \in p.called \/ ~Past(p, reg'[n].handle[2])
<1>1. \A n \in RegId : n <= nregs => n <= nregs'
  BY DEF Ages, Basic, Types, RegId
<1>2. QED
  BY <1>1 DEF Ages, Orderly

\* A step that begins no dispatch and leaves those that go on as they are.
LEMMA PassesKept ==
  ASSUME Basic, Passes, Ages, \A k \in DOMAIN stack' : k \in DOMAIN stack /\ stack'[k] = stack[k]
  PROVE  Passes'
<1> SUFFICES ASSUME NEW k \in DOMAIN stack' PROVE Orderly(stack[k])'
  BY DEF Passes
<1>1. stack'[k] = stack[k] /\ Orderly(stack[k])
  BY DEF Passes
<1>2. QED
  BY <1>1, OrderlyKept DEF Orderly, Past

\* A step that changes the dispatch on top only.
LEMMA PassesTop ==
  ASSUME Basic, Passes, Ages, stack # <<>>, NEW pass \in Pass, Orderly(pass)',
         stack' = [stack EXCEPT ![Len(stack)] = pass]
  PROVE  Passes'
<1>0. Types
  BY DEF Basic
<1>1. /\ DOMAIN stack' = DOMAIN stack /\ stack'[Len(stack)] = pass
      /\ \A k \in DOMAIN stack : k # Len(stack) => stack'[k] = stack[k]
  BY <1>0, TopChanged
<1> SUFFICES ASSUME NEW k \in DOMAIN stack' PROVE Orderly(stack[k])'
  BY DEF Passes
<1>2. CASE k = Len(stack)
  BY <1>1, <1>2 DEF Orderly, Past
<1>3. CASE k # Len(stack)
  <2>1. stack'[k] = stack[k] /\ Orderly(stack[k])
    BY <1>1, <1>3 DEF Passes
  <2>2. QED
    BY <2>1, OrderlyKept DEF Orderly, Past
<1>4. QED
  BY <1>2, <1>3

LEMMA AgesRegistered ==
  ASSUME Basic, nregs < MaxRegs, NEW m, NEW native, NEW handle, Registered(m, native, handle)
  PROVE  Ages
BY DEF Ages, Registered, Basic, Types, RegId

LEMMA AgesEnded ==
  ASSUME Basic, NEW k, NEW st \in {"removed", "faulted"}, NEW x, reg' = Ended(k, st, x),
         nregs' = nregs
  PROVE  Ages
BY DEF Ages, Ended, Basic, Types, Registration

LEMMA AgesSame ==
  ASSUME Basic, UNCHANGED regVars
  PROVE  Ages
BY DEF Ages, regVars, Basic, Types

\* Slots are numbers.
LEMMA HandleIs ==
  ASSUME Basic, NEW n \in RegId, n <= nregs
  PROVE  /\ reg[n].handle = <<reg[n].handle[1], reg[n].handle[2]>>
         /\ reg[n].handle[1] \in Rec /\ reg[n].handle[2] \in Slot /\ reg[n].handle[2] \in Nat
<1>1. reg[n].handle \in Rec \X Slot
  BY DEF Basic, Given
<1>2. QED
  BY <1>1 DEF Slot

\* The observer that ran is behind the dispatch before and after it returns.
LEMMA ReturnPasses ==
  ASSUME Basic, Passes, Ages, stack # <<>>, Top.running # 0,
         stack' = [stack EXCEPT ![Len(stack)] = [Top EXCEPT !.i = Top.i + 1, !.running = 0]]
  PROVE  Passes'
<1>0. Top \in Pass /\ Len(stack) \in DOMAIN stack /\ Top = stack[Len(stack)]
  BY StackIs DEF Top, Last, Basic
<1>1. PICK p \in Pass : p = Top
  BY <1>0
<1>2. PICK pass : pass = [p EXCEPT !.i = p.i + 1, !.running = 0]
  OBVIOUS
<1>3. p.i \in Slot /\ p.running # 0 /\ Orderly(p)
  BY <1>0, <1>1 DEF Passes, Basic, FromSlot
<1>4. /\ pass.rec = p.rec /\ pass.i = p.i + 1 /\ pass.running = 0
      /\ pass.called = p.called /\ pass.due = p.due
  BY <1>2 DEF Pass
<1>5. pass \in Pass
  <2>1. p.i + 1 \in 1..MAX_CB+1
    BY <1>3 DEF Slot
  <2>2. QED
    BY <1>2, <2>1 DEF Pass
<1>6. \A n \in RegId : n <= nregs =>
         (Past(pass, reg'[n].handle[2]) <=> Past(p, reg'[n].handle[2]))
  <2> SUFFICES ASSUME NEW n \in RegId, n <= nregs
               PROVE  Past(pass, reg'[n].handle[2]) <=> Past(p, reg'[n].handle[2])
    OBVIOUS
  <2>1. reg'[n].handle[2] \in Nat /\ p.i \in Nat
    BY <1>3, HandleIs DEF Ages, Slot
  <2>2. QED
    BY <1>3, <1>4, <2>1 DEF Past
<1>7. Orderly(pass)'
  <2>1. /\ \A n \in p.called : n \in RegId /\ n <= nregs
        /\ \A n \in p.due : n \in RegId /\ n <= nregs
    BY <1>3 DEF Orderly
  <2>2. /\ \A n \in p.called : /\ n \in RegId /\ n <= nregs'
                               /\ reg'[n].handle[1] = p.rec /\ Past(p, reg'[n].handle[2])
        /\ \A n \in p.due : /\ n \in RegId /\ n <= nregs' /\ reg'[n].handle[1] = p.rec
                            /\ reg'[n].state = "live" =>
                                   n \in p.called \/ ~Past(p, reg'[n].handle[2])
    BY <1>3, OrderlyKept
  <2>3. /\ \A n \in pass.called : /\ n \in RegId /\ n <= nregs'
                                  /\ reg'[n].handle[1] = pass.rec /\ Past(pass, reg'[n].handle[2])
        /\ \A n \in pass.due : /\ n \in RegId /\ n <= nregs' /\ reg'[n].handle[1] = pass.rec
                               /\ reg'[n].state = "live" =>
                                      n \in pass.called \/ ~Past(pass, reg'[n].handle[2])
    BY <1>4, <1>6, <2>1, <2>2
  <2>4. QED
    BY <2>3 DEF Orderly, Past
<1>8. QED
  BY <1>1, <1>2, <1>5, <1>7, PassesTop

\* The next slot of the chain is ahead, and no live observer is left out before it.
LEMMA NextAhead ==
  ASSUME Tidied, Run
  PROVE  LET s == Least(NextSlot)
             n == hk[Top.rec].cb[s].id
         IN /\ s \in Slot /\ s >= Top.i
            /\ n \in RegId /\ n <= nregs /\ reg[n].handle = <<Top.rec, s>>
            /\ \A k \in RegId : reg[k].state = "live" /\ reg[k].handle[1] = Top.rec
                                /\ reg[k].handle[2] >= Top.i
                              => reg[k].handle[2] >= s /\ (reg[k].handle[2] = s => k = n)
<1> DEFINE s == Least(NextSlot)
           n == hk[Top.rec].cb[s].id
<1>0. Basic /\ Types /\ Chains
  BY DEF Tidied, IInv, Basic
<1>1. Top \in Pass /\ Top.rec \in Rec
  BY <1>0, StackIs DEF Top, Last, Run, Pass
<1>2. NextSlot \in SUBSET Nat /\ NextSlot # {}
  <2>1. NextSlot \subseteq Slot /\ Slot \subseteq Nat
    BY DEF NextSlot, Slot
  <2>2. NextSlot # {}
    BY DEF Run
  <2>3. QED
    BY <2>1, <2>2
<1>3. s \in NextSlot /\ \A x \in NextSlot : s <= x
  BY <1>2, LeastOf
<1>4. s \in Slot /\ s >= Top.i /\ hk[Top.rec].cb[s].used
  BY <1>3 DEF NextSlot
<1> HIDE DEF s
<1>5. Names(Top.rec, s, n)
  BY <1>0, <1>1, <1>4 DEF Chains, Named
<1>6. n \in RegId /\ n <= nregs /\ reg[n].handle = <<Top.rec, s>>
  BY <1>0, <1>5 DEF Names, Basic, Given
<1>7. ASSUME NEW k \in RegId, reg[k].state = "live", reg[k].handle[1] = Top.rec,
             reg[k].handle[2] >= Top.i
      PROVE  reg[k].handle[2] >= s /\ (reg[k].handle[2] = s => k = n)
  <2>1. k <= nregs
    BY <1>0, <1>7 DEF Basic, Given
  <2>2. reg[k].handle[2] \in Slot /\ s \in Nat /\ reg[k].handle[2] \in Nat
    BY <1>0, <1>4, <2>1, HandleIs DEF Slot
  <2>3. At(k).used /\ At(k).id = k
    BY <1>0, <1>7 DEF Chains, Sits
  <2>4. reg[k].handle[2] \in NextSlot
    BY <1>7, <2>2, <2>3 DEF NextSlot, At
  <2>5. reg[k].handle[2] = s => k = n
    BY <1>7, <2>3 DEF At
  <2>6. QED
    BY <1>3, <2>2, <2>4, <2>5
<1>8. QED
  BY <1>4, <1>6, <1>7 DEF s
LEMMA RunPasses ==
  ASSUME Tidied, Passes, Run
  PROVE  Passes'
<1>0. Basic /\ Types /\ UNCHANGED <<hk, regVars>>
  BY DEF Tidied, IInv, Basic, Run, recVars
<1>1. stack # <<>> /\ Top.running = 0 /\ Top \in Pass /\ Len(stack) \in DOMAIN stack
      /\ Top = stack[Len(stack)]
  BY <1>0, StackIs DEF Run, Top, Last
<1>2. PICK p \in Pass : p = Top
  BY <1>1
<1>3. PICK s, n : s = Least(NextSlot) /\ n = hk[Top.rec].cb[s].id
  OBVIOUS
<1>4. /\ s \in Slot /\ s >= p.i
      /\ n \in RegId /\ n <= nregs /\ reg[n].handle = <<p.rec, s>>
      /\ \A k \in RegId : reg[k].state = "live" /\ reg[k].handle[1] = p.rec
                          /\ reg[k].handle[2] >= p.i
                        => reg[k].handle[2] >= s /\ (reg[k].handle[2] = s => k = n)
  BY <1>2, <1>3, NextAhead
<1>5. PICK pass : pass = [p EXCEPT !.i = s, !.running = n, !.called = p.called \cup {n}]
  OBVIOUS
<1>6. /\ pass.rec = p.rec /\ pass.i = s /\ pass.running = n
      /\ pass.called = p.called \cup {n} /\ pass.due = p.due
  BY <1>5 DEF Pass
<1>7. pass \in Pass
  <2>1. s \in 1..MAX_CB+1
    BY <1>4 DEF Slot
  <2>2. QED
    BY <1>4, <1>5, <2>1 DEF Pass
<1>8. Orderly(p) /\ p.running = 0 /\ p.i \in Nat /\ s \in Nat /\ n # 0
  <2>1. Orderly(p)
    BY <1>1, <1>2 DEF Passes
  <2>2. QED
    BY <1>1, <1>2, <1>4, <2>1 DEF Pass, Slot, RegId
<1>9. \A k \in pass.called : /\ k \in RegId /\ k <= nregs
                             /\ reg[k].handle[1] = pass.rec /\ Past(pass, reg[k].handle[2])
  <2>1. ASSUME NEW k \in p.called
        PROVE  /\ k \in RegId /\ k <= nregs
               /\ reg[k].handle[1] = pass.rec /\ Past(pass, reg[k].handle[2])
    <3>1. k \in RegId /\ k <= nregs /\ reg[k].handle[1] = p.rec /\ reg[k].handle[2] < p.i
      BY <1>8, <2>1 DEF Orderly, Past
    <3>2. reg[k].handle[2] \in Nat
      BY <1>0, <3>1, HandleIs
    <3>3. reg[k].handle[2] <= s
      BY <1>4, <1>8, <3>1, <3>2
    <3>4. QED
      BY <1>6, <1>8, <3>1, <3>3 DEF Past
  <2>2. /\ n \in RegId /\ n <= nregs
        /\ reg[n].handle[1] = pass.rec /\ Past(pass, reg[n].handle[2])
    BY <1>4, <1>6, <1>8 DEF Past
  <2>3. QED
    BY <1>6, <2>1, <2>2
<1>10. \A k \in pass.due : /\ k \in RegId /\ k <= nregs /\ reg[k].handle[1] = pass.rec
                           /\ reg[k].state = "live" =>
                                  k \in pass.called \/ ~Past(pass, reg[k].handle[2])
  <2> SUFFICES ASSUME NEW k \in p.due
               PROVE  /\ k \in RegId /\ k <= nregs /\ reg[k].handle[1] = p.rec
                      /\ reg[k].state = "live" =>
                             k \in pass.called \/ ~Past(pass, reg[k].handle[2])
    BY <1>6
  <2>1. /\ k \in RegId /\ k <= nregs /\ reg[k].handle[1] = p.rec
        /\ reg[k].state = "live" => k \in p.called \/ ~(reg[k].handle[2] < p.i)
    BY <1>8 DEF Orderly, Past
  <2>2. reg[k].handle[2] \in Nat
    BY <1>0, <2>1, HandleIs
  <2>3. ASSUME reg[k].state = "live", k \notin p.called, k # n
        PROVE  ~Past(pass, reg[k].handle[2])
    <3>1. reg[k].handle[2] >= p.i
      BY <1>8, <2>1, <2>2, <2>3
    <3>2. reg[k].handle[2] >= s /\ reg[k].handle[2] # s
      BY <1>4, <2>1, <2>3, <3>1
    <3>3. ~(reg[k].handle[2] <= s)
      BY <1>8, <2>2, <3>2
    <3>4. QED
      BY <1>6, <1>8, <3>3 DEF Past
  <2>4. QED
    BY <1>6, <2>1, <2>3
<1>11. Orderly(pass)'
  <2>1. reg' = reg /\ nregs' = nregs
    BY <1>0 DEF regVars
  <2>2. QED
    BY <1>9, <1>10, <2>1 DEF Orderly, Past
<1>12. stack' = [stack EXCEPT ![Len(stack)] = pass]
  BY <1>2, <1>3, <1>5 DEF Run
<1>13. QED
  BY <1>0, <1>1, <1>7, <1>11, <1>12, AgesSame, PassesTop

LEMMA CallPasses ==
  ASSUME Tidied, Passes, NEW va \in VA, Call(va)
  PROVE  Passes'
<1>0. Basic /\ UNCHANGED regVars
  BY DEF Tidied, IInv, Call
<1>1. mh[va].rec \in Rec
  BY <1>0 DEF Call, Enters, Basic, Led
<1>2. PICK pass : pass =
        [rec |-> mh[va].rec, va |-> va, i |-> 1, running |-> 0, called |-> {},
         due |-> {n \in 1..nregs : reg[n].state = "live" /\ reg[n].handle[1] = mh[va].rec}]
  OBVIOUS
<1>3. nregs \in 0..MaxRegs
  BY <1>0 DEF Basic, Types
<1>4. pass \in Pass
  BY <1>1, <1>2, <1>3 DEF Pass, RegId
<1>5. stack' = Append(stack, pass)
  BY <1>2 DEF Call
<1>6. \A n \in pass.due : /\ n \in RegId /\ n <= nregs /\ reg[n].handle[1] = pass.rec
                          /\ ~Past(pass, reg[n].handle[2])
  <2> SUFFICES ASSUME NEW n \in pass.due
               PROVE  /\ n \in RegId /\ n <= nregs /\ reg[n].handle[1] = pass.rec
                      /\ ~Past(pass, reg[n].handle[2])
    OBVIOUS
  <2>1. n \in RegId /\ n <= nregs /\ reg[n].handle[1] = pass.rec
    BY <1>2, <1>3 DEF RegId
  <2>2. reg[n].handle[2] \in Slot
    BY <1>0, <2>1, HandleIs
  <2>3. ~(reg[n].handle[2] < 1)
    BY <2>2 DEF Slot
  <2>4. QED
    BY <1>2, <2>1, <2>3 DEF Past
<1>7. Orderly(pass)'
  <2>1. pass.called = {} /\ reg' = reg /\ nregs' = nregs
    BY <1>0, <1>2 DEF regVars
  <2>2. QED
    BY <1>6, <2>1 DEF Orderly, Past
<1>8. /\ DOMAIN stack = 1..Len(stack) /\ Len(stack) \in Nat
      /\ DOMAIN stack' = 1..Len(stack) + 1 /\ stack'[Len(stack) + 1] = pass
      /\ \A k \in DOMAIN stack : stack'[k] = stack[k]
  BY <1>0, <1>4, <1>5, StackIs, Pushed DEF Basic
<1> SUFFICES ASSUME NEW k \in DOMAIN stack' PROVE Orderly(stack[k])'
  BY DEF Passes
<1>9. CASE k = Len(stack) + 1
  BY <1>7, <1>8, <1>9 DEF Orderly, Past
<1>10. CASE k # Len(stack) + 1
  <2>1. k \in DOMAIN stack
    BY <1>8, <1>10
  <2>2. stack'[k] = stack[k] /\ Orderly(stack[k])
    BY <1>8, <2>1 DEF Passes
  <2>3. QED
    BY <1>0, <2>2, AgesSame, OrderlyKept DEF Orderly, Past
<1>11. QED
  BY <1>9, <1>10

\* When a dispatch ends, no live observer is ahead.
LEMMA EndedComplete ==
  ASSUME Tidied, Passes, DispatchEnd
  PROVE  \A n \in Top.due : reg'[n].state = "live" => n \in Top.called
<1> SUFFICES ASSUME NEW n \in Top.due, reg'[n].state = "live", n \notin Top.called PROVE FALSE
  OBVIOUS
<1>0. Basic /\ Chains /\ reg' = reg
  BY DEF Tidied, IInv, DispatchEnd, regVars
<1>1. Top.running = 0 /\ Top \in Pass /\ Orderly(Top)
  BY <1>0, StackIs DEF DispatchEnd, Top, Last, Basic, Passes
<1>2. /\ n \in RegId /\ n <= nregs /\ reg[n].handle[1] = Top.rec
      /\ reg[n].state = "live" /\ ~(reg[n].handle[2] < Top.i)
  BY <1>0, <1>1 DEF Orderly, Past
<1>3. reg[n].handle[2] \in Slot /\ reg[n].handle[2] \in Nat
  BY <1>0, <1>2, HandleIs
<1>4. reg[n].handle[2] >= Top.i
  BY <1>1, <1>2, <1>3 DEF Pass
<1>5. hk[Top.rec].cb[reg[n].handle[2]].used
  BY <1>0, <1>2 DEF Chains, Sits, At
<1>6. reg[n].handle[2] \in NextSlot
  BY <1>3, <1>4, <1>5 DEF NextSlot
<1>7. QED
  BY <1>6 DEF DispatchEnd

\* The observer a dispatch calls is not one it has called.
LEMMA RunsAnother ==
  ASSUME Tidied, Passes, Run
  PROVE  Last(stack').running \notin Top.called
<1>0. Basic /\ Types
  BY DEF Tidied, IInv, Basic
<1>1. stack # <<>> /\ Top.running = 0 /\ Top \in Pass /\ Orderly(Top)
  BY <1>0, StackIs DEF Run, Top, Last, Passes
<1> DEFINE s == Least(NextSlot)
           n == hk[Top.rec].cb[s].id
           pass == [Top EXCEPT !.i = s, !.running = n, !.called = Top.called \cup {n}]
<1>2. s \in Slot /\ s >= Top.i /\ n \in RegId /\ reg[n].handle = <<Top.rec, s>>
  BY NextAhead
<1>3. n \notin Top.called
  <2> HIDE DEF n, s
  <2>1. ASSUME n \in Top.called PROVE reg[n].handle[2] < Top.i
    BY <1>1, <2>1 DEF Orderly, Past
  <2>2. s \in Nat /\ Top.i \in Nat
    BY <1>1, <1>2 DEF Slot, Pass
  <2>3. reg[n].handle[2] = s
    BY <1>2
  <2>4. QED
    BY <1>2, <2>1, <2>2, <2>3
<1>4. stack' = [stack EXCEPT ![Len(stack)] = pass] /\ pass.running = n
  BY <1>1 DEF Run, Pass
<1> HIDE DEF pass, s, n
<1>5. Last(stack') = pass
  <2>1. stack \in Seq(Pass) /\ Len(stack) \in DOMAIN stack
    BY <1>0, <1>1, StackIs DEF Types
  <2>2. Len(stack') = Len(stack) /\ stack'[Len(stack)] = pass
    BY <1>4, <2>1
  <2>3. QED
    BY <2>2 DEF Last
<1>6. QED
  BY <1>3, <1>4, <1>5
LEMMA StepPasses == Tidy /\ Tidied /\ Passes /\ [Next]_vars => Passes'
<1> SUFFICES ASSUME Tidy, Tidied, Passes, [Next]_vars PROVE Passes'
  OBVIOUS
<1>0. Basic
  BY DEF Tidied, IInv
<1>1. ASSUME Ages, UNCHANGED stack PROVE Passes'
  BY <1>0, <1>1, PassesKept
<1>2. ASSUME NEW m \in Mods, NEW va \in VA, NEW native \in BOOLEAN,
             EntryJoins(m, va, native) \/ EntryClaims(m, va, native)
      PROVE  Passes'
  <2>1. PICK handle : nregs < MaxRegs /\ Registered(m, native, handle) /\ UNCHANGED stack
    BY <1>2 DEF EntryJoins, EntryClaims
  <2>2. QED
    BY <1>0, <1>1, <2>1, AgesRegistered
<1>3. ASSUME UNCHANGED <<regVars, stack>> PROVE Passes'
  BY <1>0, <1>1, <1>3, AgesSame
<1>4. ASSUME NEW n \in RegId, RemoveHandle(n) PROVE Passes'
  <2>1. PICK k : reg' = Ended(k, "removed", n) /\ nregs' = nregs /\ stack' = stack
    BY <1>4 DEF RemoveHandle
  <2>2. QED
    BY <1>0, <1>1, <2>1, AgesEnded
<1>5. ASSUME NEW va \in VA, Call(va) PROVE Passes'
  BY <1>5, CallPasses
<1>6. CASE Run
  BY <1>6, RunPasses
<1>7. CASE Return
  BY <1>0, <1>7, AgesSame, ReturnPasses DEF Return
<1>8. CASE Fault
  <2>1. nregs' = nregs /\ (reg' = reg \/ \E k : reg' = Ended(k, "faulted", Top.running))
    BY <1>8 DEF Fault
  <2>2. Ages
    <3>1. CASE reg' = reg
      BY <1>0, <2>1, <3>1 DEF Ages, Basic, Types
    <3>2. ASSUME NEW k, reg' = Ended(k, "faulted", Top.running) PROVE Ages
      BY <1>0, <2>1, <3>2, AgesEnded
    <3>3. QED
      BY <2>1, <3>1, <3>2
  <2>3. QED
    BY <1>0, <1>8, <2>2, ReturnPasses DEF Fault
<1>9. CASE DispatchEnd
  <2>1. UNCHANGED regVars
    BY <1>9 DEF DispatchEnd
  <2>2. \A k \in DOMAIN stack' : k \in DOMAIN stack /\ stack'[k] = stack[k]
    <3>1. /\ DOMAIN stack = 1..Len(stack) /\ Len(stack) \in Nat
          /\ DOMAIN stack' = 1..Len(stack) - 1 /\ \A k \in DOMAIN stack' : stack'[k] = stack[k]
      BY <1>0, <1>9, StackIs, Popped DEF Basic, DispatchEnd
    <3>2. QED
      BY <3>1
  <2>3. QED
    BY <1>0, <2>1, <2>2, AgesSame, PassesKept
<1>10. ASSUME NEW m \in Mods, NEW va \in VA, Typed(m, va) PROVE Passes'
  BY <1>3, <1>10 DEF Typed
<1>11. ASSUME NEW va \in VA, NEW tier \in {1, 2}, ClaimFails(va, tier) PROVE Passes'
  BY <1>3, <1>11 DEF ClaimFails
<1>12. ASSUME NEW w \in Workers, Worker(w) PROVE Passes'
  BY <1>3, <1>12 DEF Worker, WorkerLeaves, WorkerEnters
<1>13. CASE UNCHANGED vars
  BY <1>3, <1>13 DEF vars
<1>14. QED
  BY <1>2, <1>4, <1>5, <1>6, <1>7, <1>8, <1>9, <1>10, <1>11, <1>12, <1>13
  DEF Next, ModCall, Dispatch

\* What CalledOnce says of one step.
CalledOnceStep ==
    /\ Len(stack') < Len(stack) =>
          \A n \in Top.due : reg'[n].state = "live" => n \in Top.called
    /\ stack # <<>> /\ Len(stack') = Len(stack) /\ Last(stack').running # Top.running =>
          Last(stack').running \notin Top.called

LEMMA StepCalledOnce == Tidied /\ Passes /\ [Next]_vars => CalledOnceStep
<1> SUFFICES ASSUME Tidied, Passes, [Next]_vars PROVE CalledOnceStep
  OBVIOUS
<1>0. Basic /\ Types /\ Len(stack) \in Nat
  BY StackIs DEF Tidied, IInv, Basic
<1>1. ASSUME UNCHANGED stack PROVE CalledOnceStep
  BY <1>0, <1>1 DEF CalledOnceStep, Top
<1>2. ASSUME NEW va \in VA, Call(va) PROVE CalledOnceStep
  <2>1. PICK p : stack' = Append(stack, p)
    BY <1>2 DEF Call
  <2>2. Len(stack') = Len(stack) + 1
    BY <1>0, <2>1 DEF Types
  <2>3. QED
    BY <1>0, <2>2 DEF CalledOnceStep
<1>3. CASE Run
  <2>1. Len(stack') = Len(stack)
    BY <1>0, <1>3 DEF Run, Types
  <2>2. QED
    BY <1>0, <1>3, <2>1, RunsAnother DEF CalledOnceStep
<1>4. CASE Return \/ Fault
  <2>1. /\ stack # <<>>
        /\ stack' = [stack EXCEPT ![Len(stack)] = [Top EXCEPT !.i = Top.i + 1, !.running = 0]]
    BY <1>4 DEF Return, Fault
  <2>2. Top \in Pass /\ Orderly(Top) /\ Len(stack) \in DOMAIN stack
    BY <1>0, <2>1, StackIs DEF Top, Last, Passes
  <2>3. PICK pass : pass = [Top EXCEPT !.i = Top.i + 1, !.running = 0]
    OBVIOUS
  <2>4. pass.running = 0
    BY <2>2, <2>3 DEF Pass
  <2>5. Len(stack') = Len(stack) /\ stack'[Len(stack)] = pass
    BY <1>0, <2>1, <2>2, <2>3 DEF Types
  <2>6. Last(stack').running = 0
    BY <2>4, <2>5 DEF Last
  <2>7. 0 \notin Top.called
    BY <2>2 DEF Orderly, RegId
  <2>8. QED
    BY <1>0, <2>5, <2>6, <2>7 DEF CalledOnceStep
<1>5. CASE DispatchEnd
  <2>1. \A n \in Top.due : reg'[n].state = "live" => n \in Top.called
    BY <1>5, EndedComplete
  <2>2. Len(stack') # Len(stack)
    <3>1. DOMAIN stack' = 1..Len(stack) - 1 /\ stack' \in Seq(Pass)
      BY <1>0, <1>5, Popped DEF DispatchEnd
    <3>2. Len(stack') = Len(stack) - 1
      <4>1. Len(stack') \in Nat /\ DOMAIN stack' = 1..Len(stack') /\ Len(stack) > 0
        BY <1>0, <1>5, <3>1, StackIs, LenProperties DEF DispatchEnd
      <4>2. \A a, b \in Nat : b > 0 /\ 1..a = 1..b - 1 => a = b - 1
        OBVIOUS
      <4>3. QED
        BY <1>0, <3>1, <4>1, <4>2
    <3>3. QED
      BY <1>0, <3>2
  <2>3. QED
    BY <2>1, <2>2 DEF CalledOnceStep
<1>6. QED
  BY <1>1, <1>2, <1>3, <1>4, <1>5
  DEF Next, ModCall, Dispatch, EntryJoins, EntryClaims, Typed, RemoveHandle, ClaimFails,
      Worker, WorkerLeaves, WorkerEnters, vars

\* With tidy mods, a dispatch calls no observer twice, and ends only when every
\* observer that was in the chain when it began is called or gone, whatever the
\* observers add, remove, call or raise meanwhile (hook_dispatch, core/hooks.c:100-132).
THEOREM OnceEach == Tidy /\ Spec => CalledOnce
<1>1. Init => Passes
  BY DEF Init, Passes
<1>2. Tidy => (Init /\ []Tidied /\ [][Next]_vars => [](Tidied /\ Passes))
  <2> SUFFICES ASSUME Tidy PROVE Init /\ []Tidied /\ [][Next]_vars => [](Tidied /\ Passes)
    OBVIOUS
  <2>1. Tidied /\ Passes /\ [Next]_vars => Passes'
    BY StepPasses
  <2>2. QED
    BY <1>1, <2>1, PTL
<1>3. [](Tidied /\ Passes) /\ [][Next]_vars => [][CalledOnceStep]_vars
  <2>1. Tidied /\ Passes /\ [Next]_vars => [CalledOnceStep]_vars
    BY StepCalledOnce
  <2>2. QED
    BY <2>1, PTL
<1>4. [][CalledOnceStep]_vars => CalledOnce
  BY DEF CalledOnce, CalledOnceStep
<1>5. Tidy /\ Spec => []Tidied
  BY TidyInvariant
<1>6. QED
  BY <1>2, <1>3, <1>4, <1>5 DEF Spec

-----------------------------------------------------------------------------
(***************************************************************************)
(* The inductive invariant, call by call.                                  *)
(***************************************************************************)
\* How far the two loops are.
Reached(f) ==
    /\ f.n <= Len(chain[f.va]) /\ f.m <= Len(chain[f.va])
    /\ f.phase = "pre" => f.i \in 1..f.n+1 /\ (f.running => f.i <= f.n)
    /\ f.phase = "post" => f.i <= f.m /\ (f.running => 0 < f.i)

\* The original: reached by nobody yet, running, returned or skipped.
Passed(f) ==
    /\ f.phase = "pre" => f.origs = 0
    /\ f.phase = "orig" => f.origs = 1 /\ ~f.blocked /\ ~f.running
    /\ f.phase = "post" => f.origs = (IF f.blocked THEN 0 ELSE 1)
    /\ f.phase # "post" => f.posts = <<>>

\* A blocker ends the pre loop.
Blocked(f) ==
    f.blocker # 0 => /\ f.blocked /\ f.pres # <<>> /\ Last(f.pres) = f.blocker
                     /\ f.phase = "pre" => ~f.running /\ f.i = f.n + 1

\* The hook that runs is the last of the list, and the loop is past the others.
Climbed(f) == f.phase = "pre" =>
    /\ f.running => f.pres # <<>> /\ Last(f.pres) = f.i
    /\ \A j \in DOMAIN f.pres : IF f.running THEN f.pres[j] <= f.i ELSE f.pres[j] < f.i
Descended(f) == f.phase = "post" =>
    /\ f.running => f.posts # <<>> /\ Last(f.posts) = f.i
    /\ \A j \in DOMAIN f.posts : IF f.running THEN f.posts[j] >= f.i ELSE f.posts[j] > f.i

\* Nobody was left out so far.
ServedSoFar(f) ==
    /\ f.blocker = 0 => \A k \in 1..f.n :
          (f.phase = "pre" => k < f.i) /\ Wants(f, k, "pre") => Had(k, f.pres)
    /\ f.phase = "post" => \A k \in f.i+1..f.m : Wants(f, k, "post") => Had(k, f.posts)

Sound(f) ==
    IF f.pass THEN f.phase = "orig" /\ ~f.running
    ELSE /\ Reached(f) /\ Passed(f) /\ Blocked(f)
         /\ Climbed(f) /\ Descended(f) /\ UpThenDown(f) /\ ServedSoFar(f)

TypedInv == TypedTypeOK /\ OneDispatch /\ \A f \in {calls[k] : k \in DOMAIN calls} : Sound(f)

-----------------------------------------------------------------------------
(***************************************************************************)
(* The least and the greatest position the loops go to.                    *)
(***************************************************************************)
\* The pre loop goes to the first hook that is left.
LEMMA MinIs ==
  ASSUME NEW S \in SUBSET Nat, S # {}
  PROVE  Min(S) \in S /\ \A x \in S : Min(S) <= x
<1> DEFINE R == OpToRel(<, Nat)
<1>1. PICK x \in S : \A y \in S : <<y, x>> \notin R
  <2>1. IsWellFoundedOn(R, Nat)
    BY NatLessThanWellFounded
  <2> HIDE DEF R
  <2>2. QED
    BY <2>1, WFMin
<1>2. \A y \in S : x <= y
  <2> SUFFICES ASSUME NEW y \in S, y < x PROVE FALSE
    OBVIOUS
  <2>1. <<y, x>> \in R
    BY DEF OpToRel
  <2>2. QED
    BY <1>1, <2>1
<1>3. QED
  BY <1>2 DEF Min

\* The post loop goes to the last one.
LEMMA MaxIs ==
  ASSUME NEW b \in Nat, NEW S \in SUBSET (1..b), S # {}
  PROVE  Max(S) \in S /\ \A x \in S : x <= Max(S)
<1> DEFINE T == {y \in Nat : \E x \in S : y = b - x}
<1>1. T \in SUBSET Nat /\ T # {}
  <2>1. PICK x \in S : TRUE
    OBVIOUS
  <2>2. b - x \in T
    BY <2>1
  <2>3. QED
    BY <2>2
<1>2. PICK y \in T : \A z \in T : y <= z
  <2> HIDE DEF T
  <2>1. QED
    BY <1>1, MinIs
<1>3. PICK m \in S : y = b - m
  BY <1>2
<1>4. \A x \in S : x <= m
  <2> SUFFICES ASSUME NEW x \in S PROVE x <= m
    OBVIOUS
  <2>1. b - x \in T
    OBVIOUS
  <2>2. QED
    BY <1>2, <1>3, <2>1
<1>5. QED
  BY <1>4 DEF Max

-----------------------------------------------------------------------------
(***************************************************************************)
(* Typing, and what a step may do to a chain.                              *)
(***************************************************************************)
\* The calls in progress, and what a step makes of them.
LEMMA CallsAre ==
  ASSUME TypedTypeOK
  PROVE  /\ Len(calls) \in Nat /\ DOMAIN calls = 1..Len(calls)
         /\ \A k \in DOMAIN calls : calls[k] \in CallRecord
         /\ calls # <<>> => Len(calls) > 0 /\ Len(calls) \in DOMAIN calls
         /\ calls # <<>> => Inmost = calls[Len(calls)] /\ Inmost \in CallRecord
BY LenProperties, ElementOfSeq, EmptySeq DEF TypedTypeOK, Inmost, Last

\* A call begins.
LEMMA Entered ==
  ASSUME TypedTypeOK, NEW f \in CallRecord, calls' = Append(calls, f)
  PROVE  /\ calls' \in Seq(CallRecord) /\ DOMAIN calls' = 1..Len(calls) + 1
         /\ calls'[Len(calls) + 1] = f
         /\ \A k \in DOMAIN calls : calls'[k] = calls[k]
BY CallsAre DEF TypedTypeOK

\* The innermost call ends.
LEMMA Left ==
  ASSUME TypedTypeOK, calls # <<>>, calls' = Front(calls)
  PROVE  /\ calls' \in Seq(CallRecord) /\ DOMAIN calls' = 1..Len(calls) - 1
         /\ \A k \in DOMAIN calls' : calls'[k] = calls[k]
<1>1. calls' = SubSeq(calls, 1, Len(calls) - 1)
  BY DEF Front
<1>2. \A k \in 1..Len(calls) - 1 : calls[k] \in CallRecord
  BY CallsAre
<1>3. /\ calls' \in Seq(CallRecord) /\ Len(calls') = Len(calls) - 1
      /\ \A k \in 1..Len(calls) - 1 : calls'[k] = calls[k]
  BY <1>1, <1>2, CallsAre, SubSeqProperties
<1>4. QED
  BY <1>3, LenProperties

\* The innermost call goes on.
LEMMA Moved ==
  ASSUME TypedTypeOK, calls # <<>>, NEW f \in CallRecord, Inner(f)
  PROVE  /\ calls' \in Seq(CallRecord) /\ DOMAIN calls' = DOMAIN calls
         /\ calls'[Len(calls)] = f
         /\ \A k \in DOMAIN calls : k # Len(calls) => calls'[k] = calls[k]
BY CallsAre, ExceptSeq DEF TypedTypeOK, Inner

\* The shapes the steps give the innermost call.
LEMMA Shapes ==
  ASSUME NEW f \in CallRecord, NEW r \in BOOLEAN, NEW i \in Nat, NEW j \in Nat, NEW h \in Seq(Nat)
  PROVE  /\ [f EXCEPT !.running = r, !.i = i] \in CallRecord
         /\ [f EXCEPT !.running = r, !.i = i, !.pres = h] \in CallRecord
         /\ [f EXCEPT !.running = r, !.i = i, !.posts = h] \in CallRecord
         /\ [f EXCEPT !.running = r, !.i = i, !.blocker = j] \in CallRecord
         /\ [f EXCEPT !.blocked = r] \in CallRecord
         /\ [f EXCEPT !.phase = "orig", !.origs = j] \in CallRecord
         /\ [f EXCEPT !.phase = "post", !.i = i, !.m = j] \in CallRecord
BY DEF CallRecord

\* The fields of a call.
LEMMA Numbers ==
  ASSUME NEW f \in CallRecord
  PROVE  /\ f.i \in Nat /\ f.n \in Nat /\ f.m \in Nat /\ f.blocker \in Nat /\ f.origs \in Nat
         /\ f.i + 1 \in Nat /\ f.n + 1 \in Nat /\ f.origs + 1 \in Nat /\ f.i - 1 \in Int
         /\ f.pres \in Seq(Nat) /\ f.posts \in Seq(Nat) /\ f.va \in TypedVA
         /\ f.pass \in BOOLEAN /\ f.running \in BOOLEAN /\ f.blocked \in BOOLEAN
         /\ f.phase \in {"pre", "orig", "post"}
BY DEF CallRecord

\* A hook the loop is going to run is in the chain, and its number is one of
\* the registrations.
LEMMA ChainIs ==
  ASSUME TypedTypeOK, NEW va \in TypedVA
  PROVE  /\ chain[va] \in Seq(Nat) /\ Len(chain[va]) \in Nat
         /\ \A k \in 1..Len(chain[va]) : /\ chain[va][k] \in DOMAIN entry
                                         /\ entry[chain[va][k]] \in TypedEntry
BY DEF TypedTypeOK, Regs

\* The variables keep their types.
LEMMA TypedStep ==
  ASSUME TypedInv, TypedNext
  PROVE  TypedTypeOK'
<1> USE DEF TypedInv
<1>1. ASSUME NEW va \in TypedVA, NEW pre \in BOOLEAN, NEW post \in BOOLEAN, TypedHook(va, pre, post)
      PROVE  TypedTypeOK'
  <2>1. entry' \in Seq(TypedEntry) /\ Len(entry') = Len(entry) + 1
    BY <1>1, AppendProperties DEF TypedHook, TypedTypeOK, TypedEntry
  <2>2. \A a \in TypedVA : chain'[a] \in Seq(DOMAIN entry')
    <3> SUFFICES ASSUME NEW a \in TypedVA PROVE chain'[a] \in Seq(DOMAIN entry')
      OBVIOUS
    <3>1. DOMAIN entry' = 1..Len(entry)+1 /\ Len(entry) \in Nat
      BY <2>1 DEF TypedTypeOK
    <3>2. chain[a] \in Seq(1..Len(entry))
      BY LenProperties DEF TypedTypeOK, Regs
    <3>3. chain'[a] = IF a = va THEN Append(chain[a], Len(entry) + 1) ELSE chain[a]
      BY <1>1 DEF TypedHook, TypedTypeOK
    <3>4. chain[a] \in Seq(1..Len(entry)+1)
      BY <3>1, <3>2, SeqMonotonic
    <3>5. Len(entry) + 1 \in 1..Len(entry)+1
      BY <3>1
    <3>6. Append(chain[a], Len(entry) + 1) \in Seq(1..Len(entry)+1)
      BY <3>4, <3>5, AppendProperties
    <3>7. QED
      BY <3>1, <3>3, <3>4, <3>6
  <2>3. QED
    BY <1>1, <2>1, <2>2 DEF TypedHook, TypedTypeOK, Regs
<1>2. ASSUME NEW id \in Regs, RemoveTyped(id) PROVE TypedTypeOK'
  BY <1>2 DEF RemoveTyped, Dead, TypedTypeOK, Regs, TypedEntry
<1>3. ASSUME NEW va \in TypedVA, CallTyped(va) PROVE TypedTypeOK'
  <2>1. Frame(va, inside[va]) \in CallRecord
    BY ChainIs, EmptySeq DEF Frame, CallRecord, TypedTypeOK
  <2>2. inside' \in [TypedVA -> BOOLEAN]
    BY <1>3 DEF CallTyped, TypedTypeOK
  <2>3. QED
    BY <1>3, <2>1, <2>2, Entered DEF CallTyped, TypedTypeOK, Regs
<1>4. ASSUME NEW f \in CallRecord, calls # <<>>, Inner(f), UNCHANGED <<chain, inside>>,
             entry' \in Seq(TypedEntry), DOMAIN entry' = DOMAIN entry
      PROVE  TypedTypeOK'
  BY <1>4, Moved DEF TypedTypeOK, Regs
<1>5. UNCHANGED entry => entry' \in Seq(TypedEntry) /\ DOMAIN entry' = DOMAIN entry
  BY DEF TypedTypeOK
<1>6. \A id \in Regs : entry' = [entry EXCEPT ![id].dead = TRUE]
                         => entry' \in Seq(TypedEntry) /\ DOMAIN entry' = DOMAIN entry
  <2> SUFFICES ASSUME NEW id \in Regs, entry' = [entry EXCEPT ![id].dead = TRUE]
               PROVE  entry' \in Seq(TypedEntry) /\ DOMAIN entry' = DOMAIN entry
    OBVIOUS
  <2>1. entry[id] \in TypedEntry /\ id \in 1..Len(entry)
    BY ElementOfSeq, LenProperties DEF TypedTypeOK, Regs
  <2>2. [entry[id] EXCEPT !.dead = TRUE] \in TypedEntry
    BY <2>1 DEF TypedEntry
  <2>3. QED
    BY <2>1, <2>2, ExceptSeq DEF TypedTypeOK
<1>7. CASE RunPre
  <2>1. calls # <<>> /\ Inmost \in CallRecord
    BY <1>7, CallsAre DEF RunPre, InLoop
  <2>2. PreTodo \in SUBSET Nat /\ PreTodo # {}
    <3>1. Inmost.i \in Nat /\ Inmost.n \in Nat
      BY <2>1, Numbers
    <3>2. PreTodo \in SUBSET Nat
      BY <3>1 DEF PreTodo
    <3>3. QED
      BY <1>7, <3>2 DEF RunPre
  <2>3. Min(PreTodo) \in Nat /\ Append(Inmost.pres, Min(PreTodo)) \in Seq(Nat)
    BY <2>1, <2>2, MinIs, Numbers, AppendProperties
  <2>4. [Inmost EXCEPT !.running = TRUE, !.i = Min(PreTodo), !.pres = Append(@, Min(PreTodo))] \in CallRecord
    BY <2>1, <2>3, Shapes
  <2>5. QED
    BY <1>4, <1>5, <1>7, <2>1, <2>4 DEF RunPre
<1>8. CASE RunPost
  <2>1. calls # <<>> /\ Inmost \in CallRecord
    BY <1>8, CallsAre DEF RunPost, InLoop
  <2>2. PostTodo \in SUBSET (1..Inmost.i) /\ PostTodo # {}
    BY <1>8 DEF RunPost, PostTodo
  <2>3. Max(PostTodo) \in Nat /\ Append(Inmost.posts, Max(PostTodo)) \in Seq(Nat)
    <3>1. Inmost.i \in Nat /\ Inmost.posts \in Seq(Nat)
      BY <2>1, Numbers
    <3>2. Max(PostTodo) \in 1..Inmost.i
      BY <2>2, <3>1, MaxIs
    <3>3. QED
      BY <3>1, <3>2, AppendProperties
  <2>4. [Inmost EXCEPT !.running = TRUE, !.i = Max(PostTodo), !.posts = Append(@, Max(PostTodo))]
        \in CallRecord
    BY <2>1, <2>3, Shapes
  <2>5. QED
    BY <1>4, <1>5, <1>8, <2>1, <2>4 DEF RunPost
<1>9. CASE Block
  <2>1. calls # <<>> /\ Inmost \in CallRecord
    BY <1>9, CallsAre DEF Block
  <2>2. [Inmost EXCEPT !.blocked = TRUE] \in CallRecord
    BY <2>1, Shapes, EmptySeq
  <2>3. QED
    BY <1>4, <1>5, <1>9, <2>1, <2>2 DEF Block
<1>10. CASE PreReturn
  <2>1. calls # <<>> /\ Inmost \in CallRecord
    BY <1>10, CallsAre DEF PreReturn, Running
  <2>2. /\ (IF Inmost.blocked THEN Inmost.n + 1 ELSE Inmost.i + 1) \in Nat
        /\ (IF Inmost.blocked THEN Inmost.i ELSE 0) \in Nat
    BY <2>1, Numbers
  <2>3. [Inmost EXCEPT !.running = FALSE,
                       !.i = IF Inmost.blocked THEN Inmost.n + 1 ELSE Inmost.i + 1,
                       !.blocker = IF Inmost.blocked THEN Inmost.i ELSE 0] \in CallRecord
    <3>1. \A i, j \in Nat : [Inmost EXCEPT !.running = FALSE, !.i = i, !.blocker = j] \in CallRecord
      BY <2>1, Shapes, EmptySeq
    <3>2. QED
      BY <2>2, <3>1
  <2>4. QED
    BY <1>4, <1>5, <1>10, <2>1, <2>3 DEF PreReturn
<1>11. ASSUME calls # <<>>, Running("pre") \/ Running("post") PROVE chain[Inmost.va][Inmost.i] \in Regs
  <2>1. Inmost \in CallRecord /\ Sound(Inmost) /\ ~Inmost.pass
    BY <1>11, CallsAre DEF Running, Sound
  <2>2. Inmost.i \in 1..Len(chain[Inmost.va])
    BY <1>11, <2>1, Numbers, ChainIs DEF Running, Sound, Reached
  <2>3. QED
    BY <2>1, <2>2, ChainIs, Numbers DEF Regs
<1>12. CASE PreFault
  <2>1. calls # <<>> /\ Inmost \in CallRecord
    BY <1>12, CallsAre DEF PreFault, Running
  <2>2. [Inmost EXCEPT !.running = FALSE, !.i = Inmost.i + 1] \in CallRecord
    BY <2>1, Numbers, Shapes, EmptySeq
  <2>3. QED
    BY <1>4, <1>6, <1>11, <1>12, <2>1, <2>2 DEF PreFault
<1>13. CASE Original
  <2>1. calls # <<>> /\ Inmost \in CallRecord
    BY <1>13, CallsAre DEF Original, InLoop
  <2>2. [Inmost EXCEPT !.phase = "orig", !.origs = Inmost.origs + 1] \in CallRecord
    BY <2>1, Numbers, Shapes, EmptySeq
  <2>3. QED
    BY <1>4, <1>5, <1>13, <2>1, <2>2 DEF Original
<1>14. ASSUME calls # <<>> PROVE Posting(Inmost) \in CallRecord
  BY <1>14, CallsAre, ChainIs, Numbers, Shapes, EmptySeq DEF Posting
<1>15. CASE SkipOriginal
  BY <1>4, <1>5, <1>14, <1>15 DEF SkipOriginal, InLoop
<1>16. CASE OriginalReturns
  <2>1. CASE Inmost.pass
    BY <1>16, <2>1, Left DEF OriginalReturns, InLoop, TypedTypeOK, Regs
  <2>2. CASE ~Inmost.pass
    BY <1>4, <1>5, <1>14, <1>16, <2>2 DEF OriginalReturns, InLoop
  <2>3. QED
    BY <2>1, <2>2
<1>99. ASSUME Running("post") PROVE [Inmost EXCEPT !.running = FALSE, !.i = Inmost.i - 1] \in CallRecord
  <2>1. Inmost \in CallRecord /\ Sound(Inmost) /\ ~Inmost.pass
    BY <1>99, CallsAre DEF Running, Sound
  <2>2. Inmost.i - 1 \in Nat
    BY <1>99, <2>1, Numbers DEF Running, Sound, Reached
  <2>3. QED
    BY <2>1, <2>2, Shapes, EmptySeq
<1>18. CASE PostReturn
  BY <1>4, <1>5, <1>99, <1>18 DEF PostReturn, Running
<1>19. CASE PostFault
  <2>1. calls # <<>>
    BY <1>19 DEF PostFault, Running
  <2>2. QED
    BY <1>4, <1>6, <1>11, <1>99, <1>19, <2>1 DEF PostFault
<1>20. CASE ChainEnds
  <2>1. inside' \in [TypedVA -> BOOLEAN]
    BY <1>20 DEF ChainEnds, TypedTypeOK
  <2>2. QED
    BY <1>20, <2>1, Left DEF ChainEnds, InLoop, TypedTypeOK, Regs
<1>21. QED
  BY <1>1, <1>2, <1>3, <1>7, <1>8, <1>9, <1>10, <1>12, <1>13, <1>15, <1>16, <1>18, <1>19, <1>20 DEF TypedNext

\* A list of positions, and one more.
LEMMA Appended ==
  ASSUME NEW s \in Seq(Nat), NEW x \in Nat
  PROVE  /\ Append(s, x) # <<>> /\ Len(Append(s, x)) = Len(s) + 1
         /\ DOMAIN s = 1..Len(s) /\ Len(s) \in Nat /\ DOMAIN Append(s, x) = 1..Len(s)+1
         /\ \A j \in DOMAIN s : Append(s, x)[j] = s[j] /\ s[j] \in Nat
         /\ Append(s, x)[Len(s)+1] = x
<1>1. /\ Append(s, x) \in Seq(Nat) /\ Append(s, x) # <<>> /\ Len(Append(s, x)) = Len(s) + 1
      /\ \A i \in 1..Len(s) : Append(s, x)[i] = s[i]
      /\ Append(s, x)[Len(s)+1] = x
  BY AppendProperties
<1>2. DOMAIN s = 1..Len(s) /\ Len(s) \in Nat /\ DOMAIN Append(s, x) = 1..Len(s)+1
  BY <1>1, LenProperties
<1>3. \A j \in DOMAIN s : s[j] \in Nat
  BY <1>2, ElementOfSeq
<1>4. QED
  BY <1>1, <1>2, <1>3

\* Entries stay where they are in a chain; a hook never comes to life again.
LEMMA ChainGrows ==
  ASSUME TypedInv, TypedNext
  PROVE  /\ \A va \in TypedVA : /\ Len(chain[va]) <= Len(chain'[va])
                                /\ \A k \in 1..Len(chain[va]) : chain'[va][k] = chain[va][k]
         /\ \A id \in DOMAIN entry : /\ entry'[id].pre => entry[id].pre
                                     /\ entry'[id].post => entry[id].post
                                     /\ entry[id].dead => entry'[id].dead
<1> USE DEF TypedInv
<1>1. \A va \in TypedVA : chain[va] \in Seq(DOMAIN entry) /\ Len(chain[va]) \in Nat
  BY LenProperties DEF TypedTypeOK, Regs
<1>2. \A id \in DOMAIN entry : entry[id] \in TypedEntry
  BY LenProperties, ElementOfSeq DEF TypedTypeOK
<1>3. ASSUME NEW va \in TypedVA, NEW pre \in BOOLEAN, NEW post \in BOOLEAN, TypedHook(va, pre, post)
      PROVE  /\ \A a \in TypedVA : /\ Len(chain[a]) <= Len(chain'[a])
                                   /\ \A k \in 1..Len(chain[a]) : chain'[a][k] = chain[a][k]
             /\ \A id \in DOMAIN entry : entry'[id] = entry[id]
  <2>1. \A a \in TypedVA : chain'[a] = IF a = va THEN Append(chain[a], Len(entry) + 1) ELSE chain[a]
    BY <1>3 DEF TypedHook, TypedTypeOK
  <2>2. \A a \in TypedVA : chain[a] \in Seq(Nat)
    BY ChainIs
  <2>3. Len(entry) + 1 \in Nat
    BY LenProperties DEF TypedTypeOK
  <2>4. \A a \in TypedVA : /\ Len(chain[a]) <= Len(chain'[a])
                           /\ \A k \in 1..Len(chain[a]) : chain'[a][k] = chain[a][k]
    <3> SUFFICES ASSUME NEW a \in TypedVA
                 PROVE  /\ Len(chain[a]) <= Len(chain'[a])
                        /\ \A k \in 1..Len(chain[a]) : chain'[a][k] = chain[a][k]
      OBVIOUS
    <3> DEFINE new == Append(chain[a], Len(entry) + 1)
    <3>1. Len(new) = Len(chain[a]) + 1 /\ \A k \in 1..Len(chain[a]) : new[k] = chain[a][k]
      BY <2>2, <2>3, AppendProperties
    <3>2. chain'[a] = new \/ chain'[a] = chain[a]
      BY <2>1
    <3>3. Len(chain[a]) \in Nat
      BY <1>1
    <3> HIDE DEF new
    <3>4. QED
      BY <3>1, <3>2, <3>3
  <2>5. \A id \in DOMAIN entry : entry'[id] = entry[id]
    BY <1>3 DEF TypedHook, TypedTypeOK
  <2>6. QED
    BY <2>4, <2>5
<1>4. ASSUME NEW id \in Regs, RemoveTyped(id)
      PROVE  chain' = chain /\ entry' = [entry EXCEPT ![id] = [pre |-> FALSE, post |-> FALSE, dead |-> TRUE]]
  BY <1>4 DEF RemoveTyped, Dead
<1>5. ASSUME NEW id, entry' = [entry EXCEPT ![id].dead = TRUE]
      PROVE  \A i \in DOMAIN entry : /\ entry'[i].pre => entry[i].pre
                                     /\ entry'[i].post => entry[i].post
                                     /\ entry[i].dead => entry'[i].dead
  BY <1>2, <1>5 DEF TypedEntry
<1>6. CASE PreFault \/ PostFault
  BY <1>1, <1>5, <1>6 DEF PreFault, PostFault
<1>7. CASE UNCHANGED <<chain, entry>>
  BY <1>1, <1>7
<1>8. ASSUME NEW id \in Regs, RemoveTyped(id)
      PROVE  \A i \in DOMAIN entry : /\ entry'[i].pre => entry[i].pre
                                     /\ entry'[i].post => entry[i].post
                                     /\ entry[i].dead => entry'[i].dead
  BY <1>4, <1>8, <1>2 DEF TypedEntry, Regs
<1>9. CASE \E id \in Regs : RemoveTyped(id)
  BY <1>1, <1>4, <1>8, <1>9
<1>10. CASE \E va \in TypedVA, pre, post \in BOOLEAN : TypedHook(va, pre, post)
  BY <1>3, <1>10
<1>11. QED
  BY <1>6, <1>7, <1>9, <1>10
     DEF TypedNext, CallTyped, RunPre, Block, PreReturn, Original, SkipOriginal, OriginalReturns,
         RunPost, PostReturn, ChainEnds

\* A hook that wants to be called after a step wanted it before.
LEMMA WantsLess ==
  ASSUME TypedInv, TypedNext, NEW f \in CallRecord, NEW k \in 1..Len(chain[f.va]),
         NEW hook \in {"pre", "post"}, Wants(f, k, hook)'
  PROVE  Wants(f, k, hook)
<1>1. f.va \in TypedVA
  BY Numbers
<1>2. chain[f.va][k] \in DOMAIN entry /\ chain'[f.va][k] = chain[f.va][k]
  BY <1>1, ChainGrows, ChainIs DEF TypedInv
<1>3. QED
  BY <1>1, <1>2, ChainGrows DEF Wants

\* What other calls do to the chain leaves a call sound.
LEMMA StaysSound ==
  ASSUME TypedInv, TypedNext, NEW f \in CallRecord, Sound(f)
  PROVE  Sound(f)'
<1>1. CASE f.pass
  BY <1>1 DEF Sound
<1>2. CASE ~f.pass
  <2>1. f.va \in TypedVA /\ Len(chain[f.va]) \in Nat /\ f.n \in Nat /\ f.m \in Nat /\ f.i \in Nat
    BY Numbers, ChainIs DEF TypedInv
  <2>2. Len(chain[f.va]) <= Len(chain'[f.va])
    BY <2>1, ChainGrows
  <2>3. Len(chain'[f.va]) \in Nat
    BY <2>1, TypedStep, LenProperties DEF TypedTypeOK
  <2>4. f.n <= Len(chain[f.va]) /\ f.m <= Len(chain[f.va])
    BY <1>2 DEF Sound, Reached
  <2>5. Reached(f)'
    BY <1>2, <2>1, <2>2, <2>3 DEF Sound, Reached
  <2>6. ServedSoFar(f)'
    <3>1. ASSUME NEW k \in 1..f.n, Wants(f, k, "pre")' PROVE Wants(f, k, "pre")
      BY <2>1, <2>4, <3>1, WantsLess
    <3>2. ASSUME NEW k \in f.i+1..f.m, Wants(f, k, "post")' PROVE Wants(f, k, "post")
      BY <2>1, <2>4, <3>2, WantsLess
    <3>3. QED
      BY <1>2, <3>1, <3>2 DEF Sound, ServedSoFar, Had
  <2>7. QED
    BY <1>2, <2>5, <2>6 DEF Sound, Passed, Blocked, Climbed, Descended, UpThenDown
<1>3. QED
  BY <1>1, <1>2, Numbers

-----------------------------------------------------------------------------
(***************************************************************************)
(* A turn of a loop leaves the innermost call sound.                       *)
(***************************************************************************)
\* f is the innermost call before a step and g what the step makes of it.
LEMMA InmostSound ==
  ASSUME TypedInv, TypedNext, calls # <<>>, NEW f \in CallRecord, f = Inmost, ~f.pass
  PROVE  /\ f.i \in Nat /\ f.n \in Nat /\ f.m \in Nat /\ f.blocker \in Nat /\ f.origs \in Nat
         /\ f.pres \in Seq(Nat) /\ f.posts \in Seq(Nat) /\ f.va \in TypedVA
         /\ Reached(f)' /\ Passed(f)' /\ Blocked(f)' /\ Climbed(f)' /\ Descended(f)'
         /\ UpThenDown(f)' /\ ServedSoFar(f)'
         /\ Len(chain'[f.va]) \in Nat
<1>1. Sound(f)
  BY CallsAre DEF TypedInv
<1>2. Sound(f)'
  BY <1>1, StaysSound
<1>3. Len(chain'[f.va]) \in Nat
  BY Numbers, TypedStep, LenProperties DEF TypedTypeOK
<1>4. QED
  BY <1>2, <1>3, Numbers DEF Sound

\* The record that a step gives the innermost call.
LEMMA InmostNext ==
  ASSUME TypedInv, calls # <<>>, NEW f \in CallRecord, f = Inmost, NEW h, Inner(h)
  PROVE  h = calls'[Len(calls)]
BY CallsAre DEF Inner, TypedInv

\* A call that is not passed on to the original is sound when its parts are.
LEMMA SoundParts ==
  ASSUME NEW f, ~f.pass, Reached(f)', Passed(f)', Blocked(f)', Climbed(f)', Descended(f)',
         UpThenDown(f)', ServedSoFar(f)'
  PROVE  Sound(f)'
BY DEF Sound

\* The pre loop calls the next hook.
LEMMA PreRuns ==
  ASSUME TypedInv, TypedNext, RunPre, NEW f \in CallRecord, f = Inmost, ~f.pass,
         NEW g \in CallRecord, g = calls'[Len(calls)]
  PROVE  Sound(g)' /\ g.va = f.va /\ g.pass = f.pass
<1>1. calls # <<>> /\ f.phase = "pre" /\ ~f.running /\ PreTodo # {} /\ UNCHANGED <<chain, entry>>
  BY DEF RunPre, InLoop
<1>2. /\ Reached(f)' /\ Passed(f)' /\ Blocked(f)' /\ Climbed(f)' /\ Descended(f)'
      /\ UpThenDown(f)' /\ ServedSoFar(f)'
  BY <1>1, InmostSound
<1>3. /\ f.i \in Nat /\ f.n \in Nat /\ f.m \in Nat /\ f.blocker \in Nat /\ f.origs \in Nat
      /\ f.pres \in Seq(Nat) /\ f.posts \in Seq(Nat) /\ f.va \in TypedVA /\ Len(chain'[f.va]) \in Nat
  BY <1>1, InmostSound
<1>4. Min(PreTodo) \in PreTodo /\ \A k \in PreTodo : Min(PreTodo) <= k
  <2>1. PreTodo \in SUBSET (f.i..f.n) /\ PreTodo \in SUBSET Nat
    BY <1>3 DEF PreTodo
  <2>2. QED
    BY <1>1, <1>3, <2>1, MinIs
<1>5. PICK x : x = Min(PreTodo)
  OBVIOUS
<1>6. /\ x \in Nat /\ f.i <= x /\ x <= f.n
      /\ \A k \in Nat : f.i <= k /\ k <= f.n /\ k < x => ~Wants(f, k, "pre")'
  <2>1. x \in PreTodo /\ \A k \in PreTodo : x <= k
    BY <1>4, <1>5
  <2>2. x \in f.i..f.n
    BY <2>1 DEF PreTodo
  <2>3. \A k \in f.i..f.n : Wants(f, k, "pre")' => k \in PreTodo
    BY <1>1 DEF Wants, PreTodo
  <2> HIDE DEF PreTodo
  <2>4. QED
    BY <1>3, <2>1, <2>2, <2>3
<1>7. x \in Nat /\ f.i <= x /\ x <= f.n
  BY <1>6
<1>8. /\ g.va = f.va /\ g.pass = f.pass /\ g.phase = f.phase
      /\ g.i = x /\ g.n = f.n /\ g.m = f.m /\ g.running = TRUE
      /\ g.blocked = f.blocked /\ g.pres = Append(f.pres, x) /\ g.posts = f.posts
      /\ g.blocker = f.blocker /\ g.origs = f.origs
  <2>1. g = [f EXCEPT !.running = TRUE, !.i = x, !.pres = Append(@, x)]
    BY <1>1, <1>5, InmostNext DEF RunPre
  <2>2. QED
    BY <2>1 DEF CallRecord
<1>9. /\ g.pres # <<>> /\ Last(g.pres) = x
      /\ DOMAIN f.pres = 1..Len(f.pres) /\ Len(f.pres) \in Nat /\ DOMAIN g.pres = 1..Len(f.pres)+1
      /\ \A j \in DOMAIN f.pres : g.pres[j] = f.pres[j] /\ f.pres[j] \in Nat
      /\ g.pres[Len(f.pres)+1] = x
      /\ \A k : Had(k, g.pres) <=> Had(k, f.pres) \/ k = x
  <2>1. /\ g.pres # <<>> /\ Len(g.pres) = Len(f.pres) + 1
        /\ DOMAIN f.pres = 1..Len(f.pres) /\ Len(f.pres) \in Nat /\ DOMAIN g.pres = 1..Len(f.pres)+1
        /\ \A j \in DOMAIN f.pres : g.pres[j] = f.pres[j] /\ f.pres[j] \in Nat
        /\ g.pres[Len(f.pres)+1] = x
    <3>1. f.pres \in Seq(Nat) /\ g.pres = Append(f.pres, x)
      BY <1>8, <1>3
    <3>2. QED
      BY SMTT(30), <1>7, <3>1, Appended
  <2>2. Last(g.pres) = x
    BY <2>1 DEF Last
  <2>3. ASSUME NEW k PROVE Had(k, g.pres) <=> Had(k, f.pres) \/ k = x
    <3> DEFINE p == f.pres
    <3> DEFINE q == g.pres
    <3>1. /\ DOMAIN q = DOMAIN p \cup {Len(p)+1} /\ q[Len(p)+1] = x
          /\ \A j \in DOMAIN p : q[j] = p[j]
      BY <2>1
    <3> HIDE DEF p, q
    <3>2. Had(k, q) <=> Had(k, p) \/ k = x
      BY <3>1 DEF Had
    <3>3. QED
      BY <3>2 DEF p, q
  <2>4. QED
    BY <2>1, <2>2, <2>3
<1>10. \A k, h : Wants(g, k, h)' <=> Wants(f, k, h)'
  BY <1>8 DEF Wants
<1>11. \A j \in DOMAIN f.pres : f.pres[j] < f.i
  BY <1>1, <1>2 DEF Climbed
<1>12. Reached(g)'
  BY <1>1, <1>8, <1>2, <1>3, <1>7 DEF Reached
<1>13. Passed(g)'
  BY <1>1, <1>8, <1>2, <1>3 DEF Passed
<1>14. Blocked(g)'
  BY <1>1, <1>8, <1>2, <1>3, <1>7 DEF Blocked, Reached
<1>15. \A j \in DOMAIN g.pres : g.pres[j] <= x
  <2> SUFFICES ASSUME NEW j \in DOMAIN g.pres PROVE g.pres[j] <= x
    OBVIOUS
  <2>1. CASE j \in DOMAIN f.pres
    <3>1. f.pres[j] \in Nat /\ g.pres[j] = f.pres[j]
      BY <1>9, <2>1
    <3>2. f.pres[j] < f.i
      BY <1>11, <2>1
    <3>3. QED
      BY <1>3, <1>7, <3>1, <3>2
  <2>2. CASE j = Len(f.pres) + 1
    BY <1>7, <1>9, <2>2
  <2>3. QED
    BY <1>9, <2>1, <2>2
<1>16. Climbed(g)' /\ Descended(g)'
  BY <1>1, <1>8, <1>9, <1>15 DEF Climbed, Descended
<1>17. UpThenDown(g)'
  <2>1. ASSUME NEW j \in DOMAIN g.pres, NEW k \in DOMAIN g.pres, j < k
        PROVE  g.pres[j] < g.pres[k]
    <3>1. j \in DOMAIN f.pres
      BY <1>9, <2>1
    <3>2. CASE k \in DOMAIN f.pres
      BY <1>2, <1>9, <2>1, <3>1, <3>2 DEF UpThenDown
    <3>3. CASE k = Len(f.pres) + 1
      <4>1. f.pres[j] \in Nat /\ g.pres[j] = f.pres[j] /\ g.pres[k] = x
        BY <1>9, <3>1, <3>3
      <4>2. f.pres[j] < f.i
        BY <1>11, <3>1
      <4>3. QED
        BY <1>3, <1>7, <4>1, <4>2
    <3>4. QED
      BY <1>9, <3>2, <3>3
  <2>2. QED
    BY <1>8, <1>2, <2>1 DEF UpThenDown
<1>18. ServedSoFar(g)'
  <2>1. ASSUME g.blocker = 0, NEW k \in 1..g.n, k < g.i, Wants(g, k, "pre")' PROVE Had(k, g.pres)
    <3>1. k < f.i
      BY <1>8, <1>3, <1>6, <1>10, <2>1
    <3>2. Had(k, f.pres)
      BY <1>1, <1>8, <1>2, <1>10, <2>1, <3>1 DEF ServedSoFar
    <3>3. QED
      BY <1>9, <3>2
  <2>2. QED
    BY <1>1, <1>8, <2>1 DEF ServedSoFar
<1>19. QED
  BY <1>8, <1>12, <1>13, <1>14, <1>15, <1>16, <1>17, <1>18, SoundParts

\* A pre hook blocks the call.
LEMMA BlockSound ==
  ASSUME TypedInv, TypedNext, Block, NEW f \in CallRecord, f = Inmost, ~f.pass,
         NEW g \in CallRecord, g = calls'[Len(calls)]
  PROVE  Sound(g)' /\ g.va = f.va /\ g.pass = f.pass
<1>1. calls # <<>> /\ f.phase = "pre" /\ f.running /\ ~f.blocked /\ UNCHANGED <<chain, entry>>
  BY DEF Block
<1>2. /\ g.va = f.va /\ g.pass = f.pass /\ g.phase = f.phase
      /\ g.i = f.i /\ g.n = f.n /\ g.m = f.m /\ g.running = f.running
      /\ g.blocked = TRUE /\ g.pres = f.pres /\ g.posts = f.posts
      /\ g.blocker = f.blocker /\ g.origs = f.origs
  <2>1. g = [f EXCEPT !.blocked = TRUE]
    BY <1>1, InmostNext DEF Block
  <2>2. QED
    BY <2>1 DEF CallRecord
<1>3. /\ Reached(f)' /\ Passed(f)' /\ Blocked(f)' /\ Climbed(f)' /\ Descended(f)'
      /\ UpThenDown(f)' /\ ServedSoFar(f)'
  BY <1>1, InmostSound
<1>4. /\ f.i \in Nat /\ f.n \in Nat /\ f.m \in Nat /\ f.blocker \in Nat /\ f.origs \in Nat
      /\ f.pres \in Seq(Nat) /\ f.posts \in Seq(Nat) /\ f.va \in TypedVA /\ Len(chain'[f.va]) \in Nat
  BY <1>1, InmostSound
<1>5. \A k, h : Wants(g, k, h)' <=> Wants(f, k, h)'
  BY <1>2 DEF Wants
<1>6. Reached(g)'
  BY <1>1, <1>2, <1>3, <1>4 DEF Reached
<1>7. Passed(g)'
  BY <1>1, <1>2, <1>3, <1>4 DEF Passed
<1>8. Blocked(g)'
  BY <1>1, <1>2, <1>3, <1>4 DEF Blocked
<1>9. Climbed(g)'
  BY <1>1, <1>2, <1>3, <1>4 DEF Climbed
<1>10. Descended(g)'
  BY <1>1, <1>2, <1>3, <1>4 DEF Descended
<1>11. UpThenDown(g)'
  BY <1>1, <1>2, <1>3, <1>4 DEF UpThenDown
<1>12. ServedSoFar(g)'
  BY <1>1, <1>2, <1>3, <1>4, <1>5 DEF ServedSoFar
<1>13. QED
  BY <1>2, <1>6, <1>7, <1>8, <1>9, <1>10, <1>11, <1>12, SoundParts

\* A pre hook returns.
LEMMA PreReturns ==
  ASSUME TypedInv, TypedNext, PreReturn, NEW f \in CallRecord, f = Inmost, ~f.pass,
         NEW g \in CallRecord, g = calls'[Len(calls)]
  PROVE  Sound(g)' /\ g.va = f.va /\ g.pass = f.pass
<1>1. calls # <<>> /\ f.phase = "pre" /\ f.running /\ UNCHANGED <<chain, entry>>
  BY DEF PreReturn, Running
<1>2. /\ g.va = f.va /\ g.pass = f.pass /\ g.phase = f.phase
      /\ g.i = (IF f.blocked THEN f.n + 1 ELSE f.i + 1) /\ g.n = f.n /\ g.m = f.m /\ g.running = FALSE
      /\ g.blocked = f.blocked /\ g.pres = f.pres /\ g.posts = f.posts
      /\ g.blocker = (IF f.blocked THEN f.i ELSE 0) /\ g.origs = f.origs
  <2>1. g = [f EXCEPT !.running = FALSE,
                         !.i = IF f.blocked THEN f.n + 1 ELSE f.i + 1,
                         !.blocker = IF f.blocked THEN f.i ELSE 0]
    BY <1>1, InmostNext DEF PreReturn
  <2>2. QED
    BY <2>1 DEF CallRecord
<1>3. /\ Reached(f)' /\ Passed(f)' /\ Blocked(f)' /\ Climbed(f)' /\ Descended(f)'
      /\ UpThenDown(f)' /\ ServedSoFar(f)'
  BY <1>1, InmostSound
<1>4. /\ f.i \in Nat /\ f.n \in Nat /\ f.m \in Nat /\ f.blocker \in Nat /\ f.origs \in Nat
      /\ f.pres \in Seq(Nat) /\ f.posts \in Seq(Nat) /\ f.va \in TypedVA /\ Len(chain'[f.va]) \in Nat
  BY <1>1, InmostSound
<1>5. \A k, h : Wants(g, k, h)' <=> Wants(f, k, h)'
  BY <1>2 DEF Wants
<1>6. f.i \in 1..f.n /\ f.pres # <<>> /\ Last(f.pres) = f.i
  BY <1>1, <1>3, <1>4 DEF Reached, Climbed
<1>7. Had(f.i, f.pres) /\ \A j \in DOMAIN f.pres : f.pres[j] \in Nat
  BY <1>4, <1>6, LenProperties, ElementOfSeq, EmptySeq DEF Had, Last
<1>8. Reached(g)'
  BY SMTT(30), <1>1, <1>2, <1>3, <1>4, <1>6, <1>7 DEF Reached
<1>9. Passed(g)'
  BY <1>1, <1>2, <1>3, <1>4, <1>6, <1>7 DEF Passed
<1>10. Blocked(g)'
  BY <1>1, <1>2, <1>3, <1>4, <1>6, <1>7 DEF Blocked
<1>11. Climbed(g)'
  BY SMTT(30), <1>1, <1>2, <1>3, <1>4, <1>6, <1>7 DEF Climbed
<1>12. Descended(g)'
  BY <1>1, <1>2, <1>3, <1>4, <1>6, <1>7 DEF Descended
<1>13. UpThenDown(g)'
  BY <1>1, <1>2, <1>3, <1>4, <1>6, <1>7 DEF UpThenDown
<1>14. ServedSoFar(g)'
  BY <1>1, <1>2, <1>3, <1>4, <1>5, <1>6, <1>7 DEF ServedSoFar, Blocked
<1>15. QED
  BY <1>2, <1>8, <1>9, <1>10, <1>11, <1>12, <1>13, <1>14, SoundParts

\* A pre hook raises an error.
LEMMA PreFaults ==
  ASSUME TypedInv, TypedNext, PreFault, NEW f \in CallRecord, f = Inmost, ~f.pass,
         NEW g \in CallRecord, g = calls'[Len(calls)]
  PROVE  Sound(g)' /\ g.va = f.va /\ g.pass = f.pass
<1>1. calls # <<>> /\ f.phase = "pre" /\ f.running /\ UNCHANGED chain
  BY DEF PreFault, Running
<1>2. /\ g.va = f.va /\ g.pass = f.pass /\ g.phase = f.phase
      /\ g.i = f.i + 1 /\ g.n = f.n /\ g.m = f.m /\ g.running = FALSE
      /\ g.blocked = f.blocked /\ g.pres = f.pres /\ g.posts = f.posts
      /\ g.blocker = f.blocker /\ g.origs = f.origs
  <2>1. g = [f EXCEPT !.running = FALSE, !.i = f.i + 1]
    BY <1>1, InmostNext DEF PreFault
  <2>2. QED
    BY <2>1 DEF CallRecord
<1>3. /\ Reached(f)' /\ Passed(f)' /\ Blocked(f)' /\ Climbed(f)' /\ Descended(f)'
      /\ UpThenDown(f)' /\ ServedSoFar(f)'
  BY <1>1, InmostSound
<1>4. /\ f.i \in Nat /\ f.n \in Nat /\ f.m \in Nat /\ f.blocker \in Nat /\ f.origs \in Nat
      /\ f.pres \in Seq(Nat) /\ f.posts \in Seq(Nat) /\ f.va \in TypedVA /\ Len(chain'[f.va]) \in Nat
  BY <1>1, InmostSound
<1>5. \A k, h : Wants(g, k, h)' <=> Wants(f, k, h)'
  BY <1>2 DEF Wants
<1>6. f.i \in 1..f.n /\ f.pres # <<>> /\ Last(f.pres) = f.i
  BY <1>1, <1>3, <1>4 DEF Reached, Climbed
<1>7. Had(f.i, f.pres) /\ \A j \in DOMAIN f.pres : f.pres[j] \in Nat
  BY <1>4, <1>6, LenProperties, ElementOfSeq, EmptySeq DEF Had, Last
<1>8. Reached(g)'
  BY SMTT(30), <1>1, <1>2, <1>3, <1>4, <1>6, <1>7 DEF Reached
<1>9. Passed(g)'
  BY <1>1, <1>2, <1>3, <1>4, <1>6, <1>7 DEF Passed
<1>10. Blocked(g)'
  BY <1>1, <1>2, <1>3, <1>4, <1>6, <1>7 DEF Blocked
<1>11. Climbed(g)'
  BY SMTT(30), <1>1, <1>2, <1>3, <1>4, <1>6, <1>7 DEF Climbed
<1>12. Descended(g)'
  BY <1>1, <1>2, <1>3, <1>4, <1>6, <1>7 DEF Descended
<1>13. UpThenDown(g)'
  BY <1>1, <1>2, <1>3, <1>4, <1>6, <1>7 DEF UpThenDown
<1>14. ServedSoFar(g)'
  BY <1>1, <1>2, <1>3, <1>4, <1>5, <1>6, <1>7 DEF ServedSoFar
<1>15. QED
  BY <1>2, <1>8, <1>9, <1>10, <1>11, <1>12, <1>13, <1>14, SoundParts

\* The original is called.
LEMMA OriginalRuns ==
  ASSUME TypedInv, TypedNext, Original, NEW f \in CallRecord, f = Inmost, ~f.pass,
         NEW g \in CallRecord, g = calls'[Len(calls)]
  PROVE  Sound(g)' /\ g.va = f.va /\ g.pass = f.pass
<1>1. calls # <<>> /\ f.phase = "pre" /\ ~f.running /\ PreTodo = {} /\ ~f.blocked /\ UNCHANGED <<chain, entry>>
  BY DEF Original, InLoop
<1>2. /\ g.va = f.va /\ g.pass = f.pass /\ g.phase = "orig"
      /\ g.i = f.i /\ g.n = f.n /\ g.m = f.m /\ g.running = f.running
      /\ g.blocked = f.blocked /\ g.pres = f.pres /\ g.posts = f.posts
      /\ g.blocker = f.blocker /\ g.origs = f.origs + 1
  <2>1. g = [f EXCEPT !.phase = "orig", !.origs = f.origs + 1]
    BY <1>1, InmostNext DEF Original
  <2>2. QED
    BY <2>1 DEF CallRecord
<1>3. /\ Reached(f)' /\ Passed(f)' /\ Blocked(f)' /\ Climbed(f)' /\ Descended(f)'
      /\ UpThenDown(f)' /\ ServedSoFar(f)'
  BY <1>1, InmostSound
<1>4. /\ f.i \in Nat /\ f.n \in Nat /\ f.m \in Nat /\ f.blocker \in Nat /\ f.origs \in Nat
      /\ f.pres \in Seq(Nat) /\ f.posts \in Seq(Nat) /\ f.va \in TypedVA /\ Len(chain'[f.va]) \in Nat
  BY <1>1, InmostSound
<1>5. \A k, h : Wants(g, k, h)' <=> Wants(f, k, h)'
  BY <1>2 DEF Wants
<1>6. \A k \in f.i..f.n : ~Wants(f, k, "pre")'
  BY <1>1 DEF Wants, PreTodo
<1>7. Reached(g)'
  BY <1>1, <1>2, <1>3, <1>4 DEF Reached
<1>8. Passed(g)'
  BY <1>1, <1>2, <1>3, <1>4 DEF Passed
<1>9. Blocked(g)'
  BY <1>1, <1>2, <1>3, <1>4 DEF Blocked
<1>10. Climbed(g)'
  BY <1>1, <1>2, <1>3, <1>4 DEF Climbed
<1>11. Descended(g)'
  BY <1>1, <1>2, <1>3, <1>4 DEF Descended
<1>12. UpThenDown(g)'
  BY <1>1, <1>2, <1>3, <1>4 DEF UpThenDown
<1>13. ServedSoFar(g)'
  BY <1>1, <1>2, <1>3, <1>4, <1>5, <1>6 DEF ServedSoFar, Blocked, Reached
<1>14. QED
  BY <1>2, <1>7, <1>8, <1>9, <1>10, <1>11, <1>12, <1>13, SoundParts

\* The original is skipped.
LEMMA OriginalSkipped ==
  ASSUME TypedInv, TypedNext, SkipOriginal, NEW f \in CallRecord, f = Inmost, ~f.pass,
         NEW g \in CallRecord, g = calls'[Len(calls)]
  PROVE  Sound(g)' /\ g.va = f.va /\ g.pass = f.pass
<1>1. calls # <<>> /\ f.phase = "pre" /\ ~f.running /\ PreTodo = {} /\ f.blocked /\ UNCHANGED <<chain, entry>>
  BY DEF SkipOriginal, InLoop, Posting
<1>2. /\ g.va = f.va /\ g.pass = f.pass /\ g.phase = "post"
      /\ g.i = Len(chain[f.va]) /\ g.n = f.n /\ g.m = Len(chain[f.va]) /\ g.running = f.running
      /\ g.blocked = f.blocked /\ g.pres = f.pres /\ g.posts = f.posts
      /\ g.blocker = f.blocker /\ g.origs = f.origs
  <2>1. g = [f EXCEPT !.phase = "post", !.i = Len(chain[f.va]), !.m = Len(chain[f.va])]
    BY <1>1, InmostNext DEF SkipOriginal, Posting
  <2>2. QED
    BY <2>1 DEF CallRecord
<1>3. /\ Reached(f)' /\ Passed(f)' /\ Blocked(f)' /\ Climbed(f)' /\ Descended(f)'
      /\ UpThenDown(f)' /\ ServedSoFar(f)'
  BY <1>1, InmostSound
<1>4. /\ f.i \in Nat /\ f.n \in Nat /\ f.m \in Nat /\ f.blocker \in Nat /\ f.origs \in Nat
      /\ f.pres \in Seq(Nat) /\ f.posts \in Seq(Nat) /\ f.va \in TypedVA /\ Len(chain'[f.va]) \in Nat
  BY <1>1, InmostSound
<1>5. \A k, h : Wants(g, k, h)' <=> Wants(f, k, h)'
  BY <1>2 DEF Wants
<1>6. g.m \in Nat /\ g.i \in Nat /\ g.m <= Len(chain'[g.va]) /\ g.i = g.m
  BY <1>1, <1>2, <1>4
<1>7. \A k \in f.i..f.n : ~Wants(f, k, "pre")'
  BY <1>1 DEF Wants, PreTodo
<1>8. DOMAIN f.posts = {}
  BY <1>1, <1>3, <1>4, LenProperties, EmptySeq DEF Passed
<1>9. Reached(g)'
  BY <1>1, <1>2, <1>3, <1>4, <1>6 DEF Reached
<1>10. Passed(g)'
  BY <1>1, <1>2, <1>3, <1>4 DEF Passed
<1>11. Blocked(g)'
  BY <1>1, <1>2, <1>3, <1>4 DEF Blocked
<1>12. Climbed(g)'
  BY <1>1, <1>2, <1>3, <1>4 DEF Climbed
<1>13. Descended(g)'
  BY <1>1, <1>2, <1>3, <1>4, <1>6, <1>8 DEF Descended
<1>14. UpThenDown(g)'
  BY <1>1, <1>2, <1>3, <1>4 DEF UpThenDown
<1>15. ServedSoFar(g)'
  BY <1>1, <1>2, <1>3, <1>4, <1>5, <1>6, <1>7 DEF ServedSoFar, Blocked, Reached
<1>16. QED
  BY <1>2, <1>9, <1>10, <1>11, <1>12, <1>13, <1>14, <1>15, SoundParts

\* The original returns.
LEMMA OriginalDone ==
  ASSUME TypedInv, TypedNext, OriginalReturns, NEW f \in CallRecord, f = Inmost, ~f.pass,
         NEW g \in CallRecord, g = calls'[Len(calls)]
  PROVE  Sound(g)' /\ g.va = f.va /\ g.pass = f.pass
<1>1. calls # <<>> /\ f.phase = "orig" /\ ~f.running /\ UNCHANGED <<chain, entry>>
  BY DEF OriginalReturns, InLoop, Posting
<1>2. /\ g.va = f.va /\ g.pass = f.pass /\ g.phase = "post"
      /\ g.i = Len(chain[f.va]) /\ g.n = f.n /\ g.m = Len(chain[f.va]) /\ g.running = f.running
      /\ g.blocked = f.blocked /\ g.pres = f.pres /\ g.posts = f.posts
      /\ g.blocker = f.blocker /\ g.origs = f.origs
  <2>1. g = [f EXCEPT !.phase = "post", !.i = Len(chain[f.va]), !.m = Len(chain[f.va])]
    BY <1>1, InmostNext DEF OriginalReturns, Posting
  <2>2. QED
    BY <2>1 DEF CallRecord
<1>3. /\ Reached(f)' /\ Passed(f)' /\ Blocked(f)' /\ Climbed(f)' /\ Descended(f)'
      /\ UpThenDown(f)' /\ ServedSoFar(f)'
  BY <1>1, InmostSound
<1>4. /\ f.i \in Nat /\ f.n \in Nat /\ f.m \in Nat /\ f.blocker \in Nat /\ f.origs \in Nat
      /\ f.pres \in Seq(Nat) /\ f.posts \in Seq(Nat) /\ f.va \in TypedVA /\ Len(chain'[f.va]) \in Nat
  BY <1>1, InmostSound
<1>5. \A k, h : Wants(g, k, h)' <=> Wants(f, k, h)'
  BY <1>2 DEF Wants
<1>6. g.m \in Nat /\ g.i \in Nat /\ g.m <= Len(chain'[g.va]) /\ g.i = g.m
  BY <1>1, <1>2, <1>4
<1>7. DOMAIN f.posts = {}
  BY <1>1, <1>3, <1>4, LenProperties, EmptySeq DEF Passed
<1>8. Reached(g)'
  BY <1>1, <1>2, <1>3, <1>4, <1>6 DEF Reached
<1>9. Passed(g)'
  BY <1>1, <1>2, <1>3, <1>4 DEF Passed
<1>10. Blocked(g)'
  BY <1>1, <1>2, <1>3, <1>4 DEF Blocked
<1>11. Climbed(g)'
  BY <1>1, <1>2, <1>3, <1>4 DEF Climbed
<1>12. Descended(g)'
  BY <1>1, <1>2, <1>3, <1>4, <1>6, <1>7 DEF Descended
<1>13. UpThenDown(g)'
  BY <1>1, <1>2, <1>3, <1>4 DEF UpThenDown
<1>14. ServedSoFar(g)'
  BY <1>1, <1>2, <1>3, <1>4, <1>5, <1>6 DEF ServedSoFar
<1>15. QED
  BY <1>2, <1>8, <1>9, <1>10, <1>11, <1>12, <1>13, <1>14, SoundParts

\* The post loop calls the next hook.
LEMMA PostRuns ==
  ASSUME TypedInv, TypedNext, RunPost, NEW f \in CallRecord, f = Inmost, ~f.pass,
         NEW g \in CallRecord, g = calls'[Len(calls)]
  PROVE  Sound(g)' /\ g.va = f.va /\ g.pass = f.pass
<1>1. calls # <<>> /\ f.phase = "post" /\ ~f.running /\ PostTodo # {} /\ UNCHANGED <<chain, entry>>
  BY DEF RunPost, InLoop
<1>2. /\ Reached(f)' /\ Passed(f)' /\ Blocked(f)' /\ Climbed(f)' /\ Descended(f)'
      /\ UpThenDown(f)' /\ ServedSoFar(f)'
  BY <1>1, InmostSound
<1>3. /\ f.i \in Nat /\ f.n \in Nat /\ f.m \in Nat /\ f.blocker \in Nat /\ f.origs \in Nat
      /\ f.pres \in Seq(Nat) /\ f.posts \in Seq(Nat) /\ f.va \in TypedVA /\ Len(chain'[f.va]) \in Nat
  BY <1>1, InmostSound
<1>4. Max(PostTodo) \in PostTodo /\ \A k \in PostTodo : Max(PostTodo) >= k
  <2>1. PostTodo \in SUBSET (1..f.i) /\ PostTodo \in SUBSET Nat
    BY <1>3 DEF PostTodo
  <2>2. QED
    BY <1>1, <1>3, <2>1, MaxIs
<1>5. PICK x : x = Max(PostTodo)
  OBVIOUS
<1>6. /\ x \in Nat /\ 1 <= x /\ x <= f.i
      /\ \A k \in Nat : 1 <= k /\ k <= f.i /\ k > x => ~Wants(f, k, "post")'
  <2>1. x \in PostTodo /\ \A k \in PostTodo : x >= k
    BY <1>4, <1>5
  <2>2. x \in 1..f.i
    BY <2>1 DEF PostTodo
  <2>3. \A k \in 1..f.i : Wants(f, k, "post")' => k \in PostTodo
    BY <1>1 DEF Wants, PostTodo
  <2> HIDE DEF PostTodo
  <2>4. QED
    BY <1>3, <2>1, <2>2, <2>3
<1>7. x \in Nat /\ 1 <= x /\ x <= f.i
  BY <1>6
<1>8. /\ g.va = f.va /\ g.pass = f.pass /\ g.phase = f.phase
      /\ g.i = x /\ g.n = f.n /\ g.m = f.m /\ g.running = TRUE
      /\ g.blocked = f.blocked /\ g.posts = Append(f.posts, x) /\ g.pres = f.pres
      /\ g.blocker = f.blocker /\ g.origs = f.origs
  <2>1. g = [f EXCEPT !.running = TRUE, !.i = x, !.posts = Append(@, x)]
    BY <1>1, <1>5, InmostNext DEF RunPost
  <2>2. QED
    BY <2>1 DEF CallRecord
<1>9. /\ g.posts # <<>> /\ Last(g.posts) = x
      /\ DOMAIN f.posts = 1..Len(f.posts) /\ Len(f.posts) \in Nat /\ DOMAIN g.posts = 1..Len(f.posts)+1
      /\ \A j \in DOMAIN f.posts : g.posts[j] = f.posts[j] /\ f.posts[j] \in Nat
      /\ g.posts[Len(f.posts)+1] = x
      /\ \A k : Had(k, g.posts) <=> Had(k, f.posts) \/ k = x
  <2>1. /\ g.posts # <<>> /\ Len(g.posts) = Len(f.posts) + 1
        /\ DOMAIN f.posts = 1..Len(f.posts) /\ Len(f.posts) \in Nat /\ DOMAIN g.posts = 1..Len(f.posts)+1
        /\ \A j \in DOMAIN f.posts : g.posts[j] = f.posts[j] /\ f.posts[j] \in Nat
        /\ g.posts[Len(f.posts)+1] = x
    <3>1. f.posts \in Seq(Nat) /\ g.posts = Append(f.posts, x)
      BY <1>8, <1>3
    <3>2. QED
      BY SMTT(30), <1>7, <3>1, Appended
  <2>2. Last(g.posts) = x
    BY <2>1 DEF Last
  <2>3. ASSUME NEW k PROVE Had(k, g.posts) <=> Had(k, f.posts) \/ k = x
    <3> DEFINE p == f.posts
    <3> DEFINE q == g.posts
    <3>1. /\ DOMAIN q = DOMAIN p \cup {Len(p)+1} /\ q[Len(p)+1] = x
          /\ \A j \in DOMAIN p : q[j] = p[j]
      BY <2>1
    <3> HIDE DEF p, q
    <3>2. Had(k, q) <=> Had(k, p) \/ k = x
      BY <3>1 DEF Had
    <3>3. QED
      BY <3>2 DEF p, q
  <2>4. QED
    BY <2>1, <2>2, <2>3
<1>10. \A k, h : Wants(g, k, h)' <=> Wants(f, k, h)'
  BY <1>8 DEF Wants
<1>11. \A j \in DOMAIN f.posts : f.posts[j] > f.i
  BY <1>1, <1>2 DEF Descended
<1>12. Reached(g)'
  BY <1>1, <1>8, <1>2, <1>3, <1>7 DEF Reached
<1>13. Passed(g)'
  BY <1>1, <1>8, <1>2, <1>3 DEF Passed
<1>14. Blocked(g)'
  BY <1>1, <1>8, <1>2, <1>3, <1>7 DEF Blocked, Reached
<1>15. \A j \in DOMAIN g.posts : g.posts[j] >= x
  <2> SUFFICES ASSUME NEW j \in DOMAIN g.posts PROVE g.posts[j] >= x
    OBVIOUS
  <2>1. CASE j \in DOMAIN f.posts
    <3>1. f.posts[j] \in Nat /\ g.posts[j] = f.posts[j]
      BY <1>9, <2>1
    <3>2. f.posts[j] > f.i
      BY <1>11, <2>1
    <3>3. QED
      BY <1>3, <1>7, <3>1, <3>2
  <2>2. CASE j = Len(f.posts) + 1
    BY <1>7, <1>9, <2>2
  <2>3. QED
    BY <1>9, <2>1, <2>2
<1>16. Climbed(g)' /\ Descended(g)'
  BY <1>1, <1>8, <1>9, <1>15 DEF Climbed, Descended
<1>17. UpThenDown(g)'
  <2>1. ASSUME NEW j \in DOMAIN g.posts, NEW k \in DOMAIN g.posts, j < k
        PROVE  g.posts[j] > g.posts[k]
    <3>1. j \in DOMAIN f.posts
      BY <1>9, <2>1
    <3>2. CASE k \in DOMAIN f.posts
      BY <1>2, <1>9, <2>1, <3>1, <3>2 DEF UpThenDown
    <3>3. CASE k = Len(f.posts) + 1
      <4>1. f.posts[j] \in Nat /\ g.posts[j] = f.posts[j] /\ g.posts[k] = x
        BY <1>9, <3>1, <3>3
      <4>2. f.posts[j] > f.i
        BY <1>11, <3>1
      <4>3. QED
        BY <1>3, <1>7, <4>1, <4>2
    <3>4. QED
      BY <1>9, <3>2, <3>3
  <2>2. QED
    BY <1>8, <1>2, <2>1 DEF UpThenDown
<1>18. ServedSoFar(g)'
  <2>1. ASSUME g.blocker = 0, NEW k \in 1..g.n, Wants(g, k, "pre")' PROVE Had(k, g.pres)
    BY <1>1, <1>8, <1>2, <1>10, <2>1 DEF ServedSoFar
  <2>2. ASSUME NEW k \in g.i+1..g.m, Wants(g, k, "post")' PROVE Had(k, g.posts)
    <3>1. f.i < k
      <4>1. k \in Nat /\ 1 <= k /\ x < k /\ Wants(f, k, "post")'
        BY <1>8, <1>3, <1>7, <1>10, <2>2
      <4>2. QED
        BY <1>3, <1>6, <4>1
    <3>2. Had(k, f.posts)
      BY <1>1, <1>8, <1>2, <1>3, <1>10, <2>2, <3>1 DEF ServedSoFar
    <3>3. QED
      BY <1>9, <3>2
  <2>3. QED
    BY <1>1, <1>8, <2>1, <2>2 DEF ServedSoFar
<1>19. QED
  BY <1>8, <1>12, <1>13, <1>14, <1>15, <1>16, <1>17, <1>18, SoundParts

\* A post hook returns.
LEMMA PostReturns ==
  ASSUME TypedInv, TypedNext, PostReturn, NEW f \in CallRecord, f = Inmost, ~f.pass,
         NEW g \in CallRecord, g = calls'[Len(calls)]
  PROVE  Sound(g)' /\ g.va = f.va /\ g.pass = f.pass
<1>1. calls # <<>> /\ f.phase = "post" /\ f.running /\ UNCHANGED <<chain, entry>>
  BY DEF PostReturn, Running
<1>2. /\ g.va = f.va /\ g.pass = f.pass /\ g.phase = f.phase
      /\ g.i = f.i - 1 /\ g.n = f.n /\ g.m = f.m /\ g.running = FALSE
      /\ g.blocked = f.blocked /\ g.pres = f.pres /\ g.posts = f.posts
      /\ g.blocker = f.blocker /\ g.origs = f.origs
  <2>1. g = [f EXCEPT !.running = FALSE, !.i = f.i - 1]
    BY <1>1, InmostNext DEF PostReturn
  <2>2. QED
    BY <2>1 DEF CallRecord
<1>3. /\ Reached(f)' /\ Passed(f)' /\ Blocked(f)' /\ Climbed(f)' /\ Descended(f)'
      /\ UpThenDown(f)' /\ ServedSoFar(f)'
  BY <1>1, InmostSound
<1>4. /\ f.i \in Nat /\ f.n \in Nat /\ f.m \in Nat /\ f.blocker \in Nat /\ f.origs \in Nat
      /\ f.pres \in Seq(Nat) /\ f.posts \in Seq(Nat) /\ f.va \in TypedVA /\ Len(chain'[f.va]) \in Nat
  BY <1>1, InmostSound
<1>5. \A k, h : Wants(g, k, h)' <=> Wants(f, k, h)'
  BY <1>2 DEF Wants
<1>6. f.i \in 1..f.m /\ f.posts # <<>> /\ Last(f.posts) = f.i
  BY <1>1, <1>3, <1>4 DEF Reached, Descended
<1>7. Had(f.i, f.posts) /\ \A j \in DOMAIN f.posts : f.posts[j] \in Nat
  BY SMTT(30), <1>4, <1>6, LenProperties, ElementOfSeq, EmptySeq DEF Had, Last
<1>8. Reached(g)'
  BY <1>1, <1>2, <1>3, <1>4, <1>6, <1>7 DEF Reached
<1>9. Passed(g)'
  BY <1>1, <1>2, <1>3, <1>4, <1>6, <1>7 DEF Passed
<1>10. Blocked(g)'
  BY <1>1, <1>2, <1>3, <1>4, <1>6, <1>7 DEF Blocked
<1>11. Climbed(g)'
  BY <1>1, <1>2, <1>3, <1>4, <1>6, <1>7 DEF Climbed
<1>12. Descended(g)'
  BY <1>1, <1>2, <1>3, <1>4, <1>6, <1>7 DEF Descended
<1>13. UpThenDown(g)'
  BY <1>1, <1>2, <1>3, <1>4, <1>6, <1>7 DEF UpThenDown
<1>14. ServedSoFar(g)'
  BY SMTT(30), <1>1, <1>2, <1>3, <1>4, <1>5, <1>6, <1>7 DEF ServedSoFar
<1>15. QED
  BY <1>2, <1>8, <1>9, <1>10, <1>11, <1>12, <1>13, <1>14, SoundParts

\* A post hook raises an error.
LEMMA PostFaults ==
  ASSUME TypedInv, TypedNext, PostFault, NEW f \in CallRecord, f = Inmost, ~f.pass,
         NEW g \in CallRecord, g = calls'[Len(calls)]
  PROVE  Sound(g)' /\ g.va = f.va /\ g.pass = f.pass
<1>1. calls # <<>> /\ f.phase = "post" /\ f.running /\ UNCHANGED chain
  BY DEF PostFault, Running
<1>2. /\ g.va = f.va /\ g.pass = f.pass /\ g.phase = f.phase
      /\ g.i = f.i - 1 /\ g.n = f.n /\ g.m = f.m /\ g.running = FALSE
      /\ g.blocked = f.blocked /\ g.pres = f.pres /\ g.posts = f.posts
      /\ g.blocker = f.blocker /\ g.origs = f.origs
  <2>1. g = [f EXCEPT !.running = FALSE, !.i = f.i - 1]
    BY <1>1, InmostNext DEF PostFault
  <2>2. QED
    BY <2>1 DEF CallRecord
<1>3. /\ Reached(f)' /\ Passed(f)' /\ Blocked(f)' /\ Climbed(f)' /\ Descended(f)'
      /\ UpThenDown(f)' /\ ServedSoFar(f)'
  BY <1>1, InmostSound
<1>4. /\ f.i \in Nat /\ f.n \in Nat /\ f.m \in Nat /\ f.blocker \in Nat /\ f.origs \in Nat
      /\ f.pres \in Seq(Nat) /\ f.posts \in Seq(Nat) /\ f.va \in TypedVA /\ Len(chain'[f.va]) \in Nat
  BY <1>1, InmostSound
<1>5. \A k, h : Wants(g, k, h)' <=> Wants(f, k, h)'
  BY <1>2 DEF Wants
<1>6. f.i \in 1..f.m /\ f.posts # <<>> /\ Last(f.posts) = f.i
  BY <1>1, <1>3, <1>4 DEF Reached, Descended
<1>7. Had(f.i, f.posts) /\ \A j \in DOMAIN f.posts : f.posts[j] \in Nat
  BY SMTT(30), <1>4, <1>6, LenProperties, ElementOfSeq, EmptySeq DEF Had, Last
<1>8. Reached(g)'
  BY <1>1, <1>2, <1>3, <1>4, <1>6, <1>7 DEF Reached
<1>9. Passed(g)'
  BY <1>1, <1>2, <1>3, <1>4, <1>6, <1>7 DEF Passed
<1>10. Blocked(g)'
  BY <1>1, <1>2, <1>3, <1>4, <1>6, <1>7 DEF Blocked
<1>11. Climbed(g)'
  BY <1>1, <1>2, <1>3, <1>4, <1>6, <1>7 DEF Climbed
<1>12. Descended(g)'
  BY SMTT(30), <1>1, <1>2, <1>3, <1>4, <1>6, <1>7 DEF Descended
<1>13. UpThenDown(g)'
  BY <1>1, <1>2, <1>3, <1>4, <1>6, <1>7 DEF UpThenDown
<1>14. ServedSoFar(g)'
  BY SMTT(30), <1>1, <1>2, <1>3, <1>4, <1>5, <1>6, <1>7 DEF ServedSoFar
<1>15. QED
  BY <1>2, <1>8, <1>9, <1>10, <1>11, <1>12, <1>13, <1>14, SoundParts
-----------------------------------------------------------------------------
(***************************************************************************)
(* Steps of the whole dispatcher.                                          *)
(***************************************************************************)
Inside == RunPre \/ Block \/ PreReturn \/ PreFault \/ Original \/ SkipOriginal
          \/ (OriginalReturns /\ ~Inmost.pass) \/ RunPost \/ PostReturn \/ PostFault

\* A call that passes to the original is there, and in no loop.
LEMMA PassedOn ==
  ASSUME TypedInv, calls # <<>>, Inmost.running \/ Inmost.phase # "orig"
  PROVE  ~Inmost.pass
BY CallsAre DEF TypedInv, Sound

\* Within a call only its record changes, and not what address it is of.
LEMMA InsideKeeps ==
  ASSUME TypedInv, TypedNext, Inside
  PROVE  /\ calls # <<>> /\ ~Inmost.pass /\ inside' = inside /\ DOMAIN calls' = DOMAIN calls
         /\ \E g \in CallRecord : /\ g = calls'[Len(calls)] /\ Sound(g)'
                                  /\ g.va = Inmost.va /\ g.pass = Inmost.pass
         /\ \A k \in DOMAIN calls : k # Len(calls) => calls'[k] = calls[k]
<1>1. calls # <<>> /\ ~Inmost.pass /\ inside' = inside
  BY PassedOn DEF Inside, RunPre, Block, PreReturn, PreFault, Original, SkipOriginal, OriginalReturns,
                  RunPost, PostReturn, PostFault, InLoop, Running
<1>2. \E h : Inner(h)
  BY DEF Inside, RunPre, Block, PreReturn, PreFault, Original, SkipOriginal, OriginalReturns,
         RunPost, PostReturn, PostFault
<1>3. /\ DOMAIN calls' = DOMAIN calls
      /\ \A k \in DOMAIN calls : k # Len(calls) => calls'[k] = calls[k]
  BY <1>1, <1>2, CallsAre DEF Inner, TypedInv, TypedTypeOK
<1>4. calls'[Len(calls)] \in CallRecord /\ Inmost \in CallRecord
  BY <1>1, <1>3, TypedStep, CallsAre, ElementOfSeq, LenProperties DEF TypedInv, TypedTypeOK
<1>5. PICK f \in CallRecord : f = Inmost
  BY <1>4
<1>6. PICK g \in CallRecord : g = calls'[Len(calls)]
  BY <1>4
<1>7. Sound(g)' /\ g.va = f.va /\ g.pass = f.pass
  <2>1. CASE RunPre
    BY <1>1, <1>5, <1>6, <2>1, PreRuns
  <2>2. CASE Block
    BY <1>1, <1>5, <1>6, <2>2, BlockSound
  <2>3. CASE PreReturn
    BY <1>1, <1>5, <1>6, <2>3, PreReturns
  <2>4. CASE PreFault
    BY <1>1, <1>5, <1>6, <2>4, PreFaults
  <2>5. CASE Original
    BY <1>1, <1>5, <1>6, <2>5, OriginalRuns
  <2>6. CASE SkipOriginal
    BY <1>1, <1>5, <1>6, <2>6, OriginalSkipped
  <2>7. CASE OriginalReturns
    BY <1>1, <1>5, <1>6, <2>7, OriginalDone
  <2>8. CASE RunPost
    BY <1>1, <1>5, <1>6, <2>8, PostRuns
  <2>9. CASE PostReturn
    BY <1>1, <1>5, <1>6, <2>9, PostReturns
  <2>10. CASE PostFault
    BY <1>1, <1>5, <1>6, <2>10, PostFaults
  <2>11. QED
    BY <2>1, <2>2, <2>3, <2>4, <2>5, <2>6, <2>7, <2>8, <2>9, <2>10 DEF Inside
<1>8. QED
  BY <1>1, <1>3, <1>5, <1>6, <1>7

\* A step is a registration or removal, a call, one within the innermost call
\* or the end of that call.
LEMMA Steps ==
  ASSUME TypedInv, TypedNext
  PROVE  \/ UNCHANGED <<inside, calls>>
         \/ \E va \in TypedVA : CallTyped(va)
         \/ Inside
         \/ calls # <<>> /\ Inmost.pass /\ inside' = inside /\ calls' = Front(calls)
         \/ ChainEnds
BY DEF TypedNext, TypedHook, RemoveTyped, Inside, OriginalReturns, InLoop

\* Every call in progress stays sound.
LEMMA NextSound ==
  ASSUME TypedInv, TypedNext
  PROVE  \A f \in {calls'[k] : k \in DOMAIN calls'} : Sound(f)'
<1> SUFFICES ASSUME NEW k \in DOMAIN calls', NEW f, f = calls'[k]
             PROVE  Sound(f)'
  OBVIOUS
<1>1. ASSUME k \in DOMAIN calls, f = calls[k] PROVE Sound(f)'
  BY <1>1, CallsAre, StaysSound DEF TypedInv
<1>2. CASE UNCHANGED <<inside, calls>>
  BY <1>1, <1>2
<1>3. CASE \E va \in TypedVA : CallTyped(va)
  <2>1. PICK va \in TypedVA : CallTyped(va)
    BY <1>3
  <2>2. Frame(va, inside[va]) \in CallRecord
    BY ChainIs, EmptySeq DEF Frame, CallRecord, TypedInv, TypedTypeOK
  <2>3. CASE k \in DOMAIN calls
    BY <1>1, <2>1, <2>2, <2>3, Entered DEF CallTyped, TypedInv
  <2>4. CASE f = Frame(va, inside[va])
    <3>1. /\ f.va = va /\ f.pass = inside[va] /\ f.phase = IF f.pass THEN "orig" ELSE "pre"
          /\ f.i = 1 /\ f.n = Len(chain[va]) /\ f.m = 0 /\ f.running = FALSE
          /\ f.blocked = FALSE /\ f.pres = <<>> /\ f.posts = <<>> /\ f.blocker = 0 /\ f.origs = 0
      BY <2>4 DEF Frame
    <3>2. f.pass => Sound(f)'
      BY <3>1 DEF Sound
    <3>3. chain' = chain /\ Len(chain[va]) \in Nat
      BY <2>1, ChainIs DEF CallTyped, TypedInv
    <3>4. DOMAIN f.pres = {} /\ DOMAIN f.posts = {}
      BY <3>1
    <3>5. ASSUME ~f.pass PROVE Reached(f)' /\ Passed(f)' /\ Blocked(f)'
      BY <3>1, <3>3, <3>5 DEF Reached, Passed, Blocked
    <3>6. ASSUME ~f.pass PROVE Climbed(f)' /\ Descended(f)' /\ UpThenDown(f)'
      BY <3>1, <3>4, <3>6 DEF Climbed, Descended, UpThenDown
    <3>7. ASSUME ~f.pass PROVE ServedSoFar(f)'
      BY <3>1, <3>3, <3>7 DEF ServedSoFar
    <3>8. QED
      BY <3>2, <3>5, <3>6, <3>7, SoundParts
  <2>5. QED
    BY <2>1, <2>2, <2>3, <2>4, Entered, CallsAre DEF CallTyped, TypedInv
<1>4. CASE Inside
  <2>1. CASE k # Len(calls)
    BY <1>1, <1>4, <2>1, InsideKeeps
  <2>2. CASE k = Len(calls)
    BY <1>4, <2>2, InsideKeeps
  <2>3. QED
    BY <2>1, <2>2
<1>5. CASE calls # <<>> /\ calls' = Front(calls)
  BY <1>1, <1>5, Left, CallsAre DEF TypedInv
<1>6. QED
  BY <1>2, <1>3, <1>4, <1>5, Steps DEF ChainEnds, InLoop

\* One call of an address at a time runs its chain, and the flag says so.
LEMMA NextDispatch ==
  ASSUME TypedInv, TypedNext
  PROVE  OneDispatch'
<1> SUFFICES ASSUME NEW va \in TypedVA
             PROVE  /\ inside'[va] <=> \E k \in DOMAIN calls' : RunsChain(k, va)'
                    /\ \A j, k \in DOMAIN calls' : RunsChain(j, va)' /\ RunsChain(k, va)' => j = k
  BY DEF OneDispatch
<1>1. /\ inside[va] <=> \E k \in DOMAIN calls : RunsChain(k, va)
      /\ \A j, k \in DOMAIN calls : RunsChain(j, va) /\ RunsChain(k, va) => j = k
  BY DEF TypedInv, OneDispatch
<1>2. CASE UNCHANGED <<inside, calls>>
  BY <1>1, <1>2 DEF RunsChain
<1>3. CASE \E a \in TypedVA : CallTyped(a)
  <2>1. PICK a \in TypedVA : CallTyped(a)
    BY <1>3
  <2>2. Frame(a, inside[a]) \in CallRecord
    BY ChainIs, EmptySeq DEF Frame, CallRecord, TypedInv, TypedTypeOK
  <2>3. /\ DOMAIN calls' = 1..Len(calls) + 1 /\ DOMAIN calls = 1..Len(calls) /\ Len(calls) \in Nat
        /\ calls'[Len(calls) + 1] = Frame(a, inside[a])
        /\ \A k \in DOMAIN calls : calls'[k] = calls[k]
    BY <2>1, <2>2, Entered, CallsAre DEF CallTyped, TypedInv
  <2>4. inside' = [inside EXCEPT ![a] = TRUE] /\ inside \in [TypedVA -> BOOLEAN]
    BY <2>1 DEF CallTyped, TypedInv, TypedTypeOK
  <2>5. ASSUME NEW k \in DOMAIN calls PROVE RunsChain(k, va)' <=> RunsChain(k, va)
    BY <2>3, <2>5 DEF RunsChain
  <2>6. PICK k \in Nat : k = Len(calls) + 1
    BY <2>3
  <2>7. RunsChain(k, va)' <=> a = va /\ ~inside[a]
    <3>1. Frame(a, inside[a]).va = a /\ (Frame(a, inside[a]).pass <=> inside[a])
      BY DEF Frame
    <3>2. calls'[k] = Frame(a, inside[a])
      BY <2>3, <2>6
    <3>3. QED
      BY <3>1, <3>2, Zenon DEF RunsChain
  <2>8. DOMAIN calls' = DOMAIN calls \cup {k} /\ k \notin DOMAIN calls
    BY <2>3, <2>6
  <2>9. QED
    BY <1>1, <2>4, <2>5, <2>7, <2>8
<1>4. CASE Inside
  <2>1. \A k \in DOMAIN calls : calls'[k].va = calls[k].va /\ calls'[k].pass = calls[k].pass
    BY <1>4, InsideKeeps, CallsAre DEF TypedInv
  <2>2. QED
    BY <1>1, <1>4, <2>1, InsideKeeps DEF RunsChain
<1>5. CASE /\ calls # <<>> /\ calls' = Front(calls)
           /\ (Inmost.pass /\ inside' = inside) \/ ChainEnds
  <2>1. /\ DOMAIN calls' = 1..Len(calls) - 1 /\ DOMAIN calls = 1..Len(calls)
        /\ Len(calls) \in Nat /\ Inmost = calls[Len(calls)] /\ Len(calls) \in DOMAIN calls
        /\ \A k \in DOMAIN calls' : calls'[k] = calls[k]
    BY <1>5, Left, CallsAre DEF TypedInv
  <2>2. \A k \in DOMAIN calls' : k \in DOMAIN calls /\ k # Len(calls) /\ (RunsChain(k, va)' <=> RunsChain(k, va))
    BY <2>1 DEF RunsChain
  <2>3. \A k \in DOMAIN calls : k # Len(calls) => k \in DOMAIN calls'
    BY <2>1
  <2>4. CASE Inmost.pass /\ inside' = inside
    <3>1. ~RunsChain(Len(calls), va)
      BY <2>1, <2>4 DEF RunsChain
    <3>2. QED
      BY <1>1, <2>2, <2>3, <2>4, <3>1
  <2>5. CASE ChainEnds
    <3>1. ~Inmost.pass /\ inside' = [inside EXCEPT ![Inmost.va] = FALSE] /\ inside \in [TypedVA -> BOOLEAN]
      BY <2>5, PassedOn DEF ChainEnds, InLoop, TypedInv, TypedTypeOK
    <3>2. RunsChain(Len(calls), va) <=> Inmost.va = va
      BY <2>1, <3>1 DEF RunsChain
    <3>3. CASE Inmost.va = va
      BY <1>1, <2>1, <2>2, <3>1, <3>2, <3>3
    <3>4. CASE Inmost.va # va
      BY <1>1, <2>1, <2>2, <2>3, <3>1, <3>2, <3>4
    <3>5. QED
      BY <3>3, <3>4
  <2>6. QED
    BY <1>5, <2>4, <2>5
<1>6. QED
  BY <1>2, <1>3, <1>4, <1>5, Steps DEF ChainEnds, InLoop

-----------------------------------------------------------------------------
(***************************************************************************)
(* The theorems.                                                           *)
(***************************************************************************)
\* The invariant holds before anything is hooked.
LEMMA TypedStarts ==
  ASSUME TypedInit
  PROVE  TypedInv
<1>1. /\ calls = <<>> /\ entry = <<>> /\ chain = [va \in TypedVA |-> <<>>]
      /\ inside = [va \in TypedVA |-> FALSE] /\ DOMAIN calls = {}
  BY DEF TypedInit
<1>2. TypedTypeOK
  BY <1>1, EmptySeq DEF TypedTypeOK, Regs
<1>3. QED
  BY <1>1, <1>2 DEF TypedInv, OneDispatch

\* Every step keeps the invariant.
LEMMA TypedKept ==
  ASSUME TypedInv, [TypedNext]_typedVars
  PROVE  TypedInv'
<1>1. CASE TypedNext
  BY <1>1, TypedStep, NextDispatch, NextSound DEF TypedInv
<1>2. CASE UNCHANGED typedVars
  BY <1>2 DEF typedVars, TypedInv, TypedTypeOK, OneDispatch, RunsChain, Sound, Reached, Passed, Blocked,
              Climbed, Descended, UpThenDown, ServedSoFar, Wants, CallRecord, Regs
<1>3. QED
  BY <1>1, <1>2

\* It holds of every behaviour.
LEMMA TypedAlways == TypedSpec => []TypedInv
<1>1. QED
  BY TypedStarts, TypedKept, PTL DEF TypedSpec

\* What is sound so far has served the chain.
LEMMA SoundServes ==
  ASSUME TypedInv
  PROVE  ChainServed
<1> SUFFICES ASSUME NEW f \in Dispatches
             PROVE  UpThenDown(f) /\ NobodyLeftOut(f) /\ BlockedOrCalled(f)
  BY DEF ChainServed
<1>1. Sound(f) /\ ~f.pass
  BY DEF TypedInv, Dispatches
<1>2. UpThenDown(f)
  BY <1>1 DEF Sound
<1>3. NobodyLeftOut(f)
  BY <1>1 DEF Sound, ServedSoFar, NobodyLeftOut
<1>4. BlockedOrCalled(f)
  BY <1>1 DEF Sound, Passed, Blocked, BlockedOrCalled
<1>5. QED
  BY <1>2, <1>3, <1>4

\* The variables of the typed hooks (core/hooks.c 277-346) keep their types;
\* in particular a chain holds registrations only.
THEOREM TypedWell == TypedSpec => []TypedTypeOK
<1>1. TypedInv => TypedTypeOK
  BY DEF TypedInv
<1>2. QED
  BY <1>1, TypedAlways, PTL

\* rec.busy (hooks.c:287 and 323) is set exactly while one call runs the chain
\* of its address, however hooked calls nest, block and fault.
THEOREM DispatchAlone == TypedSpec => []OneDispatch
<1>1. TypedInv => OneDispatch
  BY DEF TypedInv
<1>2. QED
  BY <1>1, TypedAlways, PTL

\* Every dispatch takes its chain up and then down, leaves out no live hook
\* but those behind a blocker, and calls the original once unless it was
\* blocked (hooks.c 289-321), whatever mod code does in between.
THEOREM ChainHolds == TypedSpec => []ChainServed
<1>1. TypedInv => ChainServed
  BY SoundServes
<1>2. QED
  BY <1>1, TypedAlways, PTL
=============================================================================
