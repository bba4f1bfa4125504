------------------------- MODULE UiSurfaces_proofs -------------------------
(***************************************************************************)
(* Theorems about the surfaces and input slots of core/ui.cpp, for any     *)
(* mods, widgets, callbacks, limits and interactions.                      *)
(***************************************************************************)
EXTENDS UiSurfaces, SequenceTheorems, TLAPS

Widget == UNION {UNION {{draw[j] : j \in DOMAIN draw} : draw \in w.draws} : w \in Worlds}
Entry == [mod : Mods, used : BOOLEAN]

Types ==
    /\ world \in Worlds
    /\ reg \in Seq(Entry) /\ Len(reg) <= world.regs
    /\ pc \in {"idle", "building"} /\ at \in 1..Len(reg)+1
    /\ rec \in Seq(Surface) /\ Len(rec) <= MaxSurfaces
    /\ snap \in Seq(Surface) /\ Len(snap) <= MaxSurfaces
    /\ seen \in Seq(Surface) /\ Len(seen) <= MaxSurfaces
    /\ slots \in [Slot -> [clicks : SUBSET Act, value : Act \cup {0}]]
    /\ acts \in Seq(Mods \X Widget) /\ Len(acts) <= world.acts
    /\ fate \in [Act -> {"none", "pending", "hit", "wrong", "lost", "superseded"}]
    /\ hits \in [Act -> Nat]
    /\ pc = "idle" => at = 1 /\ rec = <<>>

\* An interaction is in one slot at most, and those to come are in none.
OneSlot == \A n \in Act : \A s, t \in Slot : n \in Stored(s) /\ n \in Stored(t) => s = t
Fresh == \A n \in Act : n > Len(acts) => fate[n] = "none"

\* The surfaces s were drawn from the entries in use among the first n of r.
Drawn(from, s, r, n) ==
    /\ from \in [DOMAIN s -> 1..n]
    /\ \A i \in DOMAIN s : r[from[i]].used /\ r[from[i]].mod = s[i].mod
    /\ \A i, j \in DOMAIN s : i < j => from[i] < from[j]
    /\ \A k \in 1..n : r[k].used => \E i \in DOMAIN s : from[i] = k

\* The surfaces recorded so far show the entries passed over so far.
Recorded == \E from \in [DOMAIN rec -> 1..at-1] : Drawn(from, rec, reg, at-1)

\* In a steady world surface i is that of entry i, in every snapshot.
Aligned(s) == Len(s) <= Len(reg) /\ \A i \in DOMAIN s : s[i].mod = reg[i].mod

\* And the slot of a widget holds interactions with that widget, of its kind.
AtHome(s, n) ==
    /\ s[1] + 1 \in DOMAIN reg
    /\ \A draw \in world.draws :
          /\ s[2] + 1 \in DOMAIN draw
          /\ acts[n] = <<reg[s[1] + 1].mod, draw[s[2] + 1]>>
          /\ n \in Observed(s, draw[s[2] + 1])

SteadyOK == Steady =>
    /\ \A i \in DOMAIN reg : reg[i].used
    /\ Len(rec) = at - 1
    /\ Aligned(rec) /\ Aligned(snap) /\ Aligned(seen)
    /\ \A s \in Slot : \A n \in Stored(s) : AtHome(s, n)

\* The inductive invariant.
IInv == /\ Types
        /\ PendingIsStored /\ OneSlot /\ Fresh
        /\ Recorded
        /\ SteadyOK /\ ReachesItsCallback

USE BoundsAssumption, WorldsAssumption

\* Interactions are numbered from 1, up to the bound of the world.
LEMMA ActFacts ==
  ASSUME Types
  PROVE  /\ Act \subseteq Nat \ {0} /\ 1..world.acts \subseteq Act /\ world.acts \in Nat
         /\ \A draw \in world.draws : draw \in Seq(Widget)
<1>1. world \in Worlds
  BY DEF Types
<1>2. Act \subseteq Nat \ {0} /\ 1..world.acts \subseteq Act /\ world.acts \in Nat
  BY <1>1 DEF Act
<1>3. ASSUME NEW draw \in world.draws PROVE draw \in Seq(Widget)
  <2>1. draw \in Seq({draw[j] : j \in DOMAIN draw})
    BY <1>1
  <2>2. {draw[j] : j \in DOMAIN draw} \subseteq Widget
    BY <1>1 DEF Widget
  <2>3. QED
    BY <2>1, <2>2
<1>4. QED
  BY <1>2, <1>3

\* What a slot holds are interactions; a widget sees some of them.
LEMMA StoredFacts ==
  ASSUME Types, NEW s \in Slot
  PROVE  /\ slots[s].clicks \in SUBSET Act /\ slots[s].value \in Act \cup {0}
         /\ slots[s] \in [clicks : SUBSET Act, value : Act \cup {0}]
         /\ Stored(s) \subseteq Act
         /\ \A w : Observed(s, w) \subseteq Stored(s)
BY DEF Types, Stored, Observed

\* The slots a draw takes are those of its surface.
LEMMA SlotIds ==
  ASSUME NEW surf \in Nat, NEW J \in SUBSET (Nat \ {0}),
         NEW s \in UNION {SlotId(surf, j-1) : j \in J}
  PROVE  s \in Slot /\ s[1] = surf /\ s[2] + 1 \in J
<1>1. PICK j \in J : s \in SlotId(surf, j-1)
  OBVIOUS
<1>2. s \in Slot /\ s = <<surf, j-1>>
  BY <1>1 DEF SlotId
<1>3. QED
  BY <1>2

\* What a draw does to the slots T it takes, and to the interactions in them.
Taken(m, draw, T) ==
    /\ \A s \in Slot : Stored(s)' = IF s \in T THEN {} ELSE Stored(s)
    /\ \A s \in Slot \ T : slots'[s] = slots[s]
    /\ acts' = acts
    /\ \A n \in Act :
          /\ (\E s \in T : n \in Observed(s, draw[s[2]+1])) =>
                /\ hits'[n] = hits[n] + 1
                /\ fate'[n] \in {"hit", "wrong"}
                /\ (\E s \in T : n \in Observed(s, draw[s[2]+1]) /\ acts[n] = <<m, draw[s[2]+1]>>)
                      => fate'[n] = "hit"
          /\ (\A s \in T : n \notin Observed(s, draw[s[2]+1])) =>
                /\ hits'[n] = hits[n]
                /\ (\E s \in T : n \in Stored(s)) => fate'[n] = "lost"
                /\ (\A s \in T : n \notin Stored(s)) => fate'[n] = fate[n]

\* A draw takes the slots of its surface, at most one a widget.
LEMMA TakeFacts ==
  ASSUME Types, NEW surf \in Nat, NEW m \in Mods, NEW draw \in world.draws, Take(surf, m, draw)
  PROVE  /\ slots' \in [Slot -> [clicks : SUBSET Act, value : Act \cup {0}]]
         /\ fate' \in [Act -> {"none", "pending", "hit", "wrong", "lost", "superseded"}]
         /\ hits' \in [Act -> Nat]
         /\ \E T \in SUBSET Slot : /\ \A s \in T : s[1] = surf /\ s[2] + 1 \in DOMAIN draw
                                  /\ Taken(m, draw, T)
<1> DEFINE T == UNION {SlotId(surf, j-1) : j \in DOMAIN draw}
           widgetAt == [s \in T |-> draw[s[2]+1]]
           taken == UNION {Stored(s) : s \in DOMAIN widgetAt}
           observed == UNION {Observed(s, widgetAt[s]) : s \in DOMAIN widgetAt}
           right == {n \in observed : \E s \in DOMAIN widgetAt :
                        n \in Observed(s, widgetAt[s]) /\ acts[n] = <<m, widgetAt[s]>>}
<1>0. /\ slots \in [Slot -> [clicks : SUBSET Act, value : Act \cup {0}]]
      /\ fate \in [Act -> {"none", "pending", "hit", "wrong", "lost", "superseded"}]
      /\ hits \in [Act -> Nat]
  BY DEF Types
<1>1. DOMAIN draw \in SUBSET (Nat \ {0})
  BY ActFacts
<1>2. T \in SUBSET Slot /\ \A s \in T : s[1] = surf /\ s[2] + 1 \in DOMAIN draw
  BY <1>1, SlotIds
<1>3. /\ slots' = [s \in Slot |-> IF s \in T THEN EmptySlot ELSE slots[s]]
      /\ fate' = [n \in Act |-> CASE n \in right -> "hit"
                                  [] n \in observed \ right -> "wrong"
                                  [] n \in taken \ observed -> "lost"
                                  [] OTHER -> fate[n]]
      /\ hits' = [n \in Act |-> IF n \in observed THEN hits[n] + 1 ELSE hits[n]]
      /\ acts' = acts
  BY DEF Take, Drain
<1>4. EmptySlot \in [clicks : SUBSET Act, value : Act \cup {0}] /\ EmptySlot.clicks = {} /\ EmptySlot.value = 0
  BY DEF EmptySlot
<1>5. slots' \in [Slot -> [clicks : SUBSET Act, value : Act \cup {0}]]
  BY <1>0, <1>3, <1>4
<1>6. \A s \in Slot : Stored(s)' = IF s \in T THEN {} ELSE Stored(s)
  BY <1>3, <1>4 DEF Stored
<1>7. \A n : n \in taken <=> \E s \in T : n \in Stored(s)
  OBVIOUS
<1>8. \A n : n \in observed <=> \E s \in T : n \in Observed(s, draw[s[2]+1])
  OBVIOUS
<1>9. \A n : n \in right <=> n \in observed /\ \E s \in T : n \in Observed(s, draw[s[2]+1]) /\ acts[n] = <<m, draw[s[2]+1]>>
  OBVIOUS
<1>10. right \subseteq observed
  BY <1>9
<1> HIDE DEF taken, observed, right, widgetAt, T
<1>11. \A n \in Act : /\ n \in right => fate'[n] = "hit"
                      /\ n \in observed /\ n \notin right => fate'[n] = "wrong"
                      /\ n \notin observed /\ n \in taken => fate'[n] = "lost"
                      /\ n \notin observed /\ n \notin taken => fate'[n] = fate[n]
  BY <1>3, <1>10
<1>12. fate' \in [Act -> {"none", "pending", "hit", "wrong", "lost", "superseded"}]
  <2>1. DOMAIN fate' = Act /\ fate' = [n \in Act |-> fate'[n]]
    BY <1>3
  <2>2. \A n \in Act : fate'[n] \in {"none", "pending", "hit", "wrong", "lost", "superseded"}
    BY <1>0, <1>11
  <2>3. QED
    BY <2>1, <2>2
<1>13. \A n \in Act : hits'[n] = IF n \in observed THEN hits[n] + 1 ELSE hits[n]
  BY <1>3
<1>14. hits' \in [Act -> Nat]
  BY <1>0, <1>3
<1>15. \A s \in Slot \ T : slots'[s] = slots[s]
  BY <1>3
<1>16. ASSUME NEW n \in Act
       PROVE  /\ (\E s \in T : n \in Observed(s, draw[s[2]+1])) =>
                       /\ hits'[n] = hits[n] + 1
                       /\ fate'[n] \in {"hit", "wrong"}
                       /\ (\E s \in T : n \in Observed(s, draw[s[2]+1]) /\ acts[n] = <<m, draw[s[2]+1]>>)
                             => fate'[n] = "hit"
              /\ (\A s \in T : n \notin Observed(s, draw[s[2]+1])) =>
                       /\ hits'[n] = hits[n]
                       /\ (\E s \in T : n \in Stored(s)) => fate'[n] = "lost"
                       /\ (\A s \in T : n \notin Stored(s)) => fate'[n] = fate[n]
  BY <1>7, <1>8, <1>9, <1>11, <1>13
<1>17. Taken(m, draw, T)
  BY <1>3, <1>6, <1>15, <1>16 DEF Taken
<1>18. QED
  BY <1>2, <1>5, <1>12, <1>14, <1>17

\* What interaction n does, with the widget of slot S, replacing those in `over`.
Interacted(i, j, n, S, over) ==
    LET w == seen[i].widgets[j] IN
    /\ n = Len(acts) + 1 /\ n <= world.acts /\ S = SlotId(i-1, j-1)
    /\ \A s \in Slot : n \notin Stored(s)
    /\ acts' \in Seq(Mods \X Widget) /\ Len(acts') = n
    /\ \A k \in Act : k < n => acts'[k] = acts[k]
    /\ acts'[n] = <<seen[i].mod, w>>
    /\ w \in Buttons => over = {}
    /\ w \notin Buttons => over = UNION {Stored(s) : s \in S}
    /\ \A s \in Slot \ S : slots'[s] = slots[s]
    /\ \A s \in S : /\ w \in Buttons => /\ slots'[s].clicks = slots[s].clicks \cup {n}
                                        /\ slots'[s].value = slots[s].value
                    /\ w \notin Buttons => slots'[s].clicks = {} /\ slots'[s].value = n
    /\ fate'[n] = IF S = {} THEN "lost" ELSE "pending"
    /\ \A k \in over : fate'[k] = IF acts[k] = <<seen[i].mod, w>> THEN "superseded" ELSE "lost"
    /\ \A k \in Act : k # n /\ k \notin over => fate'[k] = fate[k]
    /\ hits' = hits

\* An interaction takes at most one slot.
LEMMA InteractFacts ==
  ASSUME Types, PendingIsStored, OneSlot, Fresh,
         NEW i \in DOMAIN seen, NEW j \in DOMAIN seen[i].widgets, Interact(i, j)
  PROVE  /\ slots' \in [Slot -> [clicks : SUBSET Act, value : Act \cup {0}]]
         /\ fate' \in [Act -> {"none", "pending", "hit", "wrong", "lost", "superseded"}]
         /\ \E n \in Act, S \in SUBSET Slot, over \in SUBSET Act : Interacted(i, j, n, S, over)
<1> DEFINE n == Len(acts) + 1
           w == seen[i].widgets[j]
           target == <<seen[i].mod, w>>
           S == SlotId(i-1, j-1)
           over == IF w \in Buttons THEN {} ELSE UNION {Stored(x) : x \in S}
           older == {k \in over : acts[k] = target}
<1>0. /\ slots \in [Slot -> [clicks : SUBSET Act, value : Act \cup {0}]]
      /\ fate \in [Act -> {"none", "pending", "hit", "wrong", "lost", "superseded"}]
      /\ seen \in Seq(Surface) /\ acts \in Seq(Mods \X Widget)
  BY DEF Types
<1>1. /\ n <= world.acts
      /\ acts' = Append(acts, target)
      /\ slots' = [x \in Slot |->
            IF x \notin S THEN slots[x]
            ELSE IF w \in Buttons THEN [slots[x] EXCEPT !.clicks = @ \cup {n}]
            ELSE [clicks |-> {}, value |-> n]]
      /\ fate' = [k \in Act |-> CASE k = n -> IF S = {} THEN "lost" ELSE "pending"
                                  [] k \in older -> "superseded"
                                  [] k \in over \ older -> "lost"
                                  [] OTHER -> fate[k]]
      /\ hits' = hits
  BY DEF Interact
<1>2. n \in Act /\ Len(acts) \in Nat
  BY <1>0, <1>1, ActFacts
<1>3. seen[i] \in Surface
  BY <1>0, ElementOfSeq
<1>4. seen[i].mod \in Mods /\ seen[i].widgets \in world.draws
  BY <1>3 DEF Surface
<1>5. w \in Widget
  BY <1>4, ActFacts, ElementOfSeq
<1>6. target \in Mods \X Widget
  BY <1>4, <1>5
<1>7. S \in SUBSET Slot /\ over \in SUBSET Act
  BY StoredFacts DEF SlotId
<1>8. \A s \in Slot : n \notin Stored(s)
  <2>1. fate[n] = "none"
    BY <1>2 DEF Fresh
  <2>2. QED
    BY <1>2, <2>1 DEF PendingIsStored
<1>9. n \notin over
  BY <1>7, <1>8
<1>10. /\ acts' \in Seq(Mods \X Widget) /\ Len(acts') = n
       /\ \A k \in 1..Len(acts) : acts'[k] = acts[k]
       /\ acts'[n] = target
  <2> HIDE DEF target
  <2>1. QED
    BY <1>0, <1>1, <1>6, AppendProperties
<1>11. \A k \in Act : k < n => k \in 1..Len(acts)
  BY <1>2, ActFacts
<1>20. n = Len(acts) + 1
  OBVIOUS
<1> HIDE DEF over, S, target, w, n
<1>12. /\ \A s \in Slot \ S : slots'[s] = slots[s]
       /\ \A s \in S : /\ w \in Buttons => slots'[s] = [slots[s] EXCEPT !.clicks = @ \cup {n}]
                       /\ w \notin Buttons => slots'[s] = [clicks |-> {}, value |-> n]
  BY <1>1, <1>7
<1>13. \A s \in S : /\ w \in Buttons => slots'[s].clicks = slots[s].clicks \cup {n}
                                        /\ slots'[s].value = slots[s].value
                    /\ w \notin Buttons => slots'[s].clicks = {} /\ slots'[s].value = n
  <2>1. TAKE s \in S
  <2>2. slots[s] \in [clicks : SUBSET Act, value : Act \cup {0}]
    BY <1>0, <1>7
  <2>3. CASE w \in Buttons
    <3>1. slots'[s] = [slots[s] EXCEPT !.clicks = @ \cup {n}]
      BY <1>12, <2>3
    <3>2. slots'[s].clicks = slots[s].clicks \cup {n} /\ slots'[s].value = slots[s].value
      BY <2>2, <3>1
    <3>3. QED
      BY <2>3, <3>2
  <2>4. CASE w \notin Buttons
    <3>1. slots'[s] = [clicks |-> {}, value |-> n]
      BY <1>12, <2>4
    <3>2. slots'[s].clicks = {} /\ slots'[s].value = n
      BY <3>1
    <3>3. QED
      BY <2>4, <3>2
  <2>5. QED
    BY <2>3, <2>4
<1>14. slots' \in [Slot -> [clicks : SUBSET Act, value : Act \cup {0}]]
  <2>1. \A s \in Slot : slots'[s] \in [clicks : SUBSET Act, value : Act \cup {0}]
    <3>1. TAKE s \in Slot
    <3>2. slots[s] \in [clicks : SUBSET Act, value : Act \cup {0}] /\ n \in Act
      BY <1>0, <1>2
    <3>3. CASE s \in S /\ w \in Buttons
      <4>1. [slots[s] EXCEPT !.clicks = @ \cup {n}] \in [clicks : SUBSET Act, value : Act \cup {0}]
        BY <3>2
      <4>2. slots'[s] = [slots[s] EXCEPT !.clicks = @ \cup {n}]
        BY <1>12, <3>3
      <4>3. QED
        BY <4>1, <4>2
    <3>4. CASE s \in S /\ w \notin Buttons
      <4>1. slots'[s] = [clicks |-> {}, value |-> n]
        BY <1>12, <3>4
      <4>2. QED
        BY <3>2, <4>1
    <3>5. CASE s \notin S
      BY <1>12, <3>2, <3>5
    <3>6. QED
      BY <3>3, <3>4, <3>5
  <2>2. DOMAIN slots' = Slot /\ slots' = [s \in Slot |-> slots'[s]]
    BY <1>1
  <2>3. QED
    BY <2>1, <2>2
<1>15. \A k \in Act : /\ k = n => fate'[k] = IF S = {} THEN "lost" ELSE "pending"
                      /\ k # n /\ k \in older => fate'[k] = "superseded"
                      /\ k # n /\ k \in over /\ k \notin older => fate'[k] = "lost"
                      /\ k # n /\ k \notin over => fate'[k] = fate[k]
  <2>1. older \subseteq over
    OBVIOUS
  <2> HIDE DEF older
  <2>2. QED
    BY <1>1, <1>9, <2>1
<1>16. fate' \in [Act -> {"none", "pending", "hit", "wrong", "lost", "superseded"}]
  <2>1. DOMAIN fate' = Act /\ fate' = [k \in Act |-> fate'[k]]
    BY <1>1
  <2>2. \A k \in Act : fate'[k] \in {"none", "pending", "hit", "wrong", "lost", "superseded"}
    BY <1>0, <1>15
  <2>3. QED
    BY <2>1, <2>2
<1>17. \A k \in over : fate'[k] = IF acts[k] = target THEN "superseded" ELSE "lost"
  BY <1>7, <1>9, <1>15
<1>18. over = IF w \in Buttons THEN {} ELSE UNION {Stored(x) : x \in S}
  BY DEF over
<1>19. \A k \in Act : k < n => acts'[k] = acts[k]
  BY <1>10, <1>11
<1> HIDE DEF older
<1>21. S = SlotId(i-1, j-1) /\ w = seen[i].widgets[j] /\ target = <<seen[i].mod, w>>
  BY DEF S, w, target
<1>22. /\ n = Len(acts) + 1 /\ n <= world.acts /\ S = SlotId(i-1, j-1)
       /\ \A s \in Slot : n \notin Stored(s)
       /\ acts' = Append(acts, <<seen[i].mod, w>>)
       /\ acts' \in Seq(Mods \X Widget) /\ Len(acts') = n
       /\ \A k \in Act : k < n => acts'[k] = acts[k]
       /\ acts'[n] = <<seen[i].mod, w>>
  BY <1>1, <1>8, <1>10, <1>19, <1>20, <1>21
<1>23. /\ fate'[n] = IF S = {} THEN "lost" ELSE "pending"
       /\ \A k \in Act : k # n /\ k \notin over => fate'[k] = fate[k]
  BY <1>2, <1>15
<1>26. \A k \in over : fate'[k] = IF acts[k] = <<seen[i].mod, w>> THEN "superseded" ELSE "lost"
  BY <1>17, <1>21
<1>24. \A k \in S : /\ seen[i].widgets[j] \in Buttons => /\ slots'[k].clicks = slots[k].clicks \cup {n}
                                                       /\ slots'[k].value = slots[k].value
                    /\ seen[i].widgets[j] \notin Buttons => slots'[k].clicks = {} /\ slots'[k].value = n
  BY <1>13, <1>21
<1>25. /\ S \in SUBSET Slot /\ over \in SUBSET Act /\ n \in Act
       /\ w \in Buttons => over = {}
       /\ w \notin Buttons => over = UNION {Stored(s) : s \in S}
       /\ \A s \in Slot \ S : slots'[s] = slots[s]
       /\ hits' = hits
  BY <1>1, <1>2, <1>7, <1>12, <1>18
<1>27. Interacted(i, j, n, S, over)
  BY <1>21, <1>22, <1>23, <1>24, <1>25, <1>26 DEF Interacted
<1>28. QED
  BY <1>14, <1>16, <1>25, <1>27

\* Overwriting an element of a sequence, or none if the index is outside.
LEMMA Overwrite ==
  ASSUME NEW S, NEW q \in Seq(S), NEW k, NEW e \in S
  PROVE  /\ [q EXCEPT ![k] = e] \in Seq(S)
         /\ Len([q EXCEPT ![k] = e]) = Len(q)
         /\ DOMAIN [q EXCEPT ![k] = e] = DOMAIN q
         /\ \A i \in DOMAIN q : [q EXCEPT ![k] = e][i] = IF i = k THEN e ELSE q[i]
<1>1. Len(q) \in Nat /\ DOMAIN q = 1..Len(q) /\ q \in [1..Len(q) -> S]
  BY LenProperties
<1>2. \A i \in DOMAIN q : [q EXCEPT ![k] = e][i] = IF i = k THEN e ELSE q[i]
  OBVIOUS
<1>3. [q EXCEPT ![k] = e] \in [1..Len(q) -> S]
  BY <1>1
<1>4. [q EXCEPT ![k] = e] \in Seq(S)
  BY <1>1, <1>3, SeqDef
<1>5. QED
  BY <1>1, <1>2, <1>4, LenProperties

\* What registration does to the registry: an entry not in use is taken, or
\* one more is appended.
LEMMA RegisterFacts ==
  ASSUME Types, NEW m \in Mods, Register(m)
  PROVE  /\ reg' \in Seq(Entry) /\ Len(reg') <= world.regs /\ Len(reg) <= Len(reg')
         /\ (\A i \in DOMAIN reg : reg[i].used) =>
               /\ \A i \in DOMAIN reg' : reg'[i].used
               /\ \A i \in DOMAIN reg : reg'[i] = reg[i]
<1> DEFINE free == {i \in DOMAIN reg : ~reg[i].used}
           entry == [mod |-> m, used |-> TRUE]
<1>1. reg \in Seq(Entry) /\ Len(reg) \in Nat /\ DOMAIN reg = 1..Len(reg) /\ Len(reg) <= world.regs
      /\ world.regs \in Nat
  BY DEF Types
<1>2. entry \in Entry /\ entry.used
  BY DEF Entry
<1>3. CASE free # {} /\ reg' = [reg EXCEPT ![Min(free)] = entry]
  <2> HIDE DEF entry
  <2>1. reg' \in Seq(Entry) /\ Len(reg') = Len(reg)
    BY <1>1, <1>2, <1>3, Overwrite
  <2>2. QED
    BY <1>1, <1>3, <2>1
<1>4. CASE free = {} /\ Len(reg) < world.regs /\ reg' = Append(reg, entry)
  <2> HIDE DEF entry
  <2>1. /\ reg' \in Seq(Entry) /\ Len(reg') = Len(reg) + 1 /\ DOMAIN reg' = 1..Len(reg) + 1
        /\ \A i \in 1..Len(reg) : reg'[i] = reg[i]
        /\ reg'[Len(reg) + 1] = entry
    BY <1>1, <1>2, <1>4, AppendProperties
  <2>2. \A i \in DOMAIN reg : reg[i].used
    BY <1>4
  <2>3. \A i \in DOMAIN reg' : reg'[i].used
    <3>1. \A i \in DOMAIN reg' : i \in 1..Len(reg) \/ i = Len(reg) + 1
      BY <1>1, <2>1
    <3>2. QED
      BY <1>1, <1>2, <2>1, <2>2, <3>1
  <2>4. QED
    BY <1>1, <1>4, <2>1, <2>3
<1>5. QED
  BY <1>3, <1>4 DEF Register

\* What a finished draw records.
LEMMA RecordFacts ==
  ASSUME Types, NEW draw \in world.draws, BuildingAt
  PROVE  LET new == Append(rec, [mod |-> reg[at].mod, widgets |-> draw]) IN
         /\ reg[at] \in Entry /\ reg[at].mod \in Mods /\ at \in DOMAIN reg /\ at + 1 \in 1..Len(reg)+1
         /\ new \in Seq(Surface) /\ Len(new) = Len(rec) + 1 /\ Len(new) <= MaxSurfaces
         /\ DOMAIN new = 1..Len(rec) + 1 /\ DOMAIN rec = 1..Len(rec) /\ Len(rec) \in Nat
         /\ \A i \in DOMAIN rec : new[i] = rec[i]
         /\ new[Len(rec) + 1].mod = reg[at].mod
<1>1. /\ reg \in Seq(Entry) /\ Len(reg) \in Nat /\ DOMAIN reg = 1..Len(reg) /\ at \in 1..Len(reg)+1
      /\ rec \in Seq(Surface) /\ Len(rec) \in Nat /\ DOMAIN rec = 1..Len(rec) /\ at <= Len(reg)
      /\ Len(rec) < MaxSurfaces
  BY DEF Types, BuildingAt
<1>2. at \in DOMAIN reg /\ at + 1 \in 1..Len(reg)+1
  BY <1>1
<1>3. reg[at] \in Entry
  BY <1>1, <1>2
<1>4. reg[at].mod \in Mods
  BY <1>3 DEF Entry
<1> DEFINE e == [mod |-> reg[at].mod, widgets |-> draw]
<1>5. e \in Surface /\ e.mod = reg[at].mod
  BY <1>4 DEF Surface
<1> HIDE DEF e
<1>6. /\ Append(rec, e) \in Seq(Surface) /\ Len(Append(rec, e)) = Len(rec) + 1
      /\ DOMAIN Append(rec, e) = 1..Len(rec) + 1
      /\ \A i \in DOMAIN rec : Append(rec, e)[i] = rec[i]
      /\ Append(rec, e)[Len(rec) + 1] = e
  BY <1>1, <1>5, AppendProperties
<1>7. Len(Append(rec, e)) <= MaxSurfaces
  BY <1>1, <1>6
<1>8. QED
  BY <1>1, <1>2, <1>3, <1>4, <1>5, <1>6, <1>7 DEF e

\* A fault takes the entry out of use and leaves the others alone.
LEMMA FaultFacts ==
  ASSUME Types, BuildingAt, reg' = [reg EXCEPT ![at].used = FALSE]
  PROVE  /\ reg' \in Seq(Entry) /\ Len(reg') = Len(reg) /\ DOMAIN reg' = DOMAIN reg
         /\ \A i \in DOMAIN reg : i # at => reg'[i] = reg[i]
         /\ reg'[at].used = FALSE
<1>1. /\ reg \in Seq(Entry) /\ Len(reg) \in Nat /\ DOMAIN reg = 1..Len(reg) /\ at \in 1..Len(reg)+1
      /\ at <= Len(reg)
  BY DEF Types, BuildingAt
<1>2. at \in DOMAIN reg /\ reg[at] \in Entry
  BY <1>1
<1> DEFINE e == [reg[at] EXCEPT !.used = FALSE]
<1>3. e \in Entry /\ e.used = FALSE
  <2>1. reg[at] \in [mod : Mods, used : BOOLEAN]
    BY <1>2 DEF Entry
  <2>2. \A r \in [mod : Mods, used : BOOLEAN] :
           [r EXCEPT !.used = FALSE] \in [mod : Mods, used : BOOLEAN] /\ [r EXCEPT !.used = FALSE].used = FALSE
    OBVIOUS
  <2>3. QED
    BY <2>1, <2>2 DEF Entry
<1>4. reg' = [reg EXCEPT ![at] = e]
  OBVIOUS
<1> HIDE DEF e
<1>5. reg' \in Seq(Entry) /\ Len(reg') = Len(reg) /\ DOMAIN reg' = DOMAIN reg
  <2>1. [reg EXCEPT ![at] = e] \in Seq(Entry) /\ Len([reg EXCEPT ![at] = e]) = Len(reg)
    BY <1>1, <1>3, Overwrite
  <2>2. DOMAIN reg' = DOMAIN reg
    BY <1>4
  <2>3. QED
    BY <1>4, <2>1, <2>2, Zenon
<1>6. \A i \in DOMAIN reg : reg'[i] = IF i = at THEN e ELSE reg[i]
  BY <1>1, <1>4
<1>7. QED
  BY <1>2, <1>3, <1>5, <1>6

\* The types hold at the start.
LEMMA TypesInit == Init => Types
<1>1. SUFFICES ASSUME Init PROVE Types
  OBVIOUS
<1>2. EmptySlot \in [clicks : SUBSET Act, value : Act \cup {0}]
  BY DEF EmptySlot
<1>3. slots \in [Slot -> [clicks : SUBSET Act, value : Act \cup {0}]]
  BY <1>1, <1>2 DEF Init
<1>4. /\ <<>> \in Seq(Entry) /\ <<>> \in Seq(Surface) /\ <<>> \in Seq(Mods \X Widget)
      /\ Len(<<>>) = 0
  OBVIOUS
<1>5. world \in Worlds /\ world.acts \in Nat /\ world.regs \in Nat
  BY <1>1 DEF Init
<1>6. /\ fate \in [Act -> {"none", "pending", "hit", "wrong", "lost", "superseded"}]
      /\ hits \in [Act -> Nat]
  BY <1>1 DEF Init
<1>7. QED
  BY <1>1, <1>3, <1>4, <1>5, <1>6 DEF Init, Types

\* Every step keeps the types.
LEMMA TypesKept ==
  ASSUME Types, PendingIsStored, OneSlot, Fresh, [Next]_vars
  PROVE  Types'
<1>0. /\ world \in Worlds
      /\ reg \in Seq(Entry) /\ Len(reg) <= world.regs /\ Len(reg) \in Nat
      /\ pc \in {"idle", "building"} /\ at \in 1..Len(reg)+1
      /\ rec \in Seq(Surface) /\ Len(rec) <= MaxSurfaces /\ Len(rec) \in Nat
      /\ snap \in Seq(Surface) /\ Len(snap) <= MaxSurfaces
      /\ seen \in Seq(Surface) /\ Len(seen) <= MaxSurfaces
      /\ slots \in [Slot -> [clicks : SUBSET Act, value : Act \cup {0}]]
      /\ acts \in Seq(Mods \X Widget) /\ Len(acts) <= world.acts
      /\ fate \in [Act -> {"none", "pending", "hit", "wrong", "lost", "superseded"}]
      /\ hits \in [Act -> Nat]
      /\ pc = "idle" => at = 1 /\ rec = <<>>
  BY DEF Types
<1>1. world' = world /\ Surface' = Surface
  BY DEF Next, vars, Register, Build, BuildBegin, SkipUnused, BuildEnd, Draw, DrawFault, Fetch,
         Interact, Surface
<1>2. ASSUME NEW m \in Mods, Register(m) PROVE Types'
  <2>1. pc = "idle" /\ UNCHANGED <<world, pc, at, rec, snap, seen, slots, acts, fate, hits>>
    BY <1>2 DEF Register, buildVars, actVars
  <2>2. /\ reg' \in Seq(Entry) /\ Len(reg') <= world.regs /\ Len(reg) <= Len(reg')
        /\ Len(reg') \in Nat
    BY <1>2, RegisterFacts
  <2>3. at' \in 1..Len(reg')+1
    BY <1>0, <2>1, <2>2
  <2>4. QED
    BY <1>0, <1>1, <2>1, <2>2, <2>3 DEF Types
<1>3. CASE BuildBegin
  BY <1>0, <1>1, <1>3 DEF BuildBegin, actVars, Types
<1>4. CASE SkipUnused
  <2>1. at + 1 \in 1..Len(reg)+1
    BY <1>0, <1>4 DEF SkipUnused, BuildingAt
  <2>2. QED
    BY <1>0, <1>1, <1>4, <2>1 DEF SkipUnused, BuildingAt, actVars, Types
<1>5. CASE BuildEnd
  <2>1. <<>> \in Seq(Surface) /\ Len(<<>>) = 0 /\ 1 \in 1..Len(reg)+1
    BY <1>0
  <2>2. snap' \in Seq(Surface) /\ Len(snap') <= MaxSurfaces
    BY <1>0, <1>5 DEF BuildEnd
  <2>3. QED
    BY <1>0, <1>1, <1>5, <2>1, <2>2 DEF BuildEnd, actVars, Types
<1>6. ASSUME NEW draw \in world.draws, Draw(draw) PROVE Types'
  <2>1. BuildingAt /\ reg[at].mod \in Mods /\ at + 1 \in 1..Len(reg)+1 /\ pc = "building"
        /\ rec' \in Seq(Surface) /\ Len(rec') <= MaxSurfaces
    BY <1>6, RecordFacts DEF Draw, BuildingAt
  <2>2. /\ slots' \in [Slot -> [clicks : SUBSET Act, value : Act \cup {0}]]
        /\ fate' \in [Act -> {"none", "pending", "hit", "wrong", "lost", "superseded"}]
        /\ hits' \in [Act -> Nat]
    BY <1>0, <1>6, <2>1, TakeFacts DEF Draw
  <2>3. acts' = acts
    BY <1>6 DEF Draw, Take
  <2>4. QED
    BY <1>0, <1>1, <1>6, <2>1, <2>2, <2>3 DEF Draw, Types
<1>7. ASSUME NEW draw \in world.draws, DrawFault(draw) PROVE Types'
  <2>1. BuildingAt /\ reg[at].mod \in Mods /\ at + 1 \in 1..Len(reg)+1 /\ pc = "building"
    BY <1>7, RecordFacts DEF DrawFault, BuildingAt
  <2>2. /\ slots' \in [Slot -> [clicks : SUBSET Act, value : Act \cup {0}]]
        /\ fate' \in [Act -> {"none", "pending", "hit", "wrong", "lost", "superseded"}]
        /\ hits' \in [Act -> Nat]
    BY <1>0, <1>7, <2>1, TakeFacts DEF DrawFault
  <2>3. acts' = acts
    BY <1>7 DEF DrawFault, Take
  <2>4. reg' \in Seq(Entry) /\ Len(reg') = Len(reg)
    BY <1>7, <2>1, FaultFacts DEF DrawFault
  <2>5. QED
    BY <1>0, <1>1, <1>7, <2>1, <2>2, <2>3, <2>4 DEF DrawFault, Types
<1>8. CASE Fetch
  BY <1>0, <1>1, <1>8 DEF Fetch, buildVars, actVars, Types
<1>9. ASSUME NEW i \in DOMAIN seen, NEW j \in DOMAIN seen[i].widgets, Interact(i, j) PROVE Types'
  <2>1. /\ slots' \in [Slot -> [clicks : SUBSET Act, value : Act \cup {0}]]
        /\ fate' \in [Act -> {"none", "pending", "hit", "wrong", "lost", "superseded"}]
        /\ acts' \in Seq(Mods \X Widget) /\ Len(acts') <= world.acts
        /\ hits' = hits
    BY <1>9, InteractFacts DEF Interacted
  <2>2. QED
    BY <1>0, <1>1, <1>9, <2>1 DEF Interact, buildVars, Types
<1>10. CASE UNCHANGED vars
  BY <1>0, <1>1, <1>10 DEF vars, Types
<1>11. QED
  BY <1>2, <1>3, <1>4, <1>5, <1>6, <1>7, <1>8, <1>9, <1>10 DEF Next, Build

\* What the slots hold, and what became of each interaction.
Pending == PendingIsStored /\ OneSlot /\ Fresh

\* At the start nothing is pending and every slot is empty.
LEMMA PendingInit == Init => Pending
<1>1. SUFFICES ASSUME Init PROVE Pending
  OBVIOUS
<1>2. /\ \A n \in Act : fate[n] = "none" /\ hits[n] = 0
      /\ \A s \in Slot : slots[s].clicks = {} /\ slots[s].value = 0
  BY <1>1 DEF Init, EmptySlot
<1>3. \A s \in Slot : Stored(s) = {}
  BY <1>2 DEF Stored
<1>4. QED
  BY <1>2, <1>3 DEF Pending, PendingIsStored, OneSlot, Fresh

\* A draw delivers or loses what was in the slots it takes, and nothing else.
LEMMA PendingTake ==
  ASSUME Types, Pending, NEW surf \in Nat, NEW m \in Mods, NEW draw \in world.draws, Take(surf, m, draw)
  PROVE  Pending'
<1>1. PICK T \in SUBSET Slot : Taken(m, draw, T)
  BY TakeFacts
<1>2. /\ \A s \in Slot : Stored(s)' = IF s \in T THEN {} ELSE Stored(s)
      /\ acts' = acts
  BY <1>1 DEF Taken
<1>3. OneSlot'
  BY <1>2 DEF Pending, OneSlot
<1>4. ASSUME NEW n \in Act
      PROVE  /\ fate[n] = "pending" <=> \E s \in Slot : n \in Stored(s)
             /\ hits[n] \in {0, 1}
             /\ hits[n] = 1 <=> fate[n] \in {"hit", "wrong"}
  BY DEF Pending, PendingIsStored, Types
<1>5. ASSUME NEW n \in Act
      PROVE  /\ fate'[n] = "pending" <=> \E s \in Slot : n \in Stored(s)'
             /\ hits'[n] \in {0, 1}
             /\ hits'[n] = 1 <=> fate'[n] \in {"hit", "wrong"}
             /\ fate[n] = "none" => fate'[n] = "none"
  <2>1. CASE \E s \in T : n \in Observed(s, draw[s[2]+1])
    <3>1. PICK s \in T : n \in Stored(s)
      BY <2>1, StoredFacts
    <3>2. fate[n] = "pending" /\ hits[n] = 0
      BY <1>4, <3>1
    <3>3. hits'[n] = 1 /\ fate'[n] \in {"hit", "wrong"}
      BY <1>1, <2>1, <3>2 DEF Taken
    <3>4. \A t \in Slot : n \notin Stored(t)'
      BY <1>2, <3>1 DEF Pending, OneSlot
    <3>5. QED
      BY <3>2, <3>3, <3>4
  <2>2. CASE /\ \A s \in T : n \notin Observed(s, draw[s[2]+1])
             /\ \E s \in T : n \in Stored(s)
    <3>1. PICK s \in T : n \in Stored(s)
      BY <2>2
    <3>2. fate[n] = "pending" /\ hits[n] = 0
      BY <1>4, <3>1
    <3>3. hits'[n] = 0 /\ fate'[n] = "lost"
      BY <1>1, <2>2, <3>2 DEF Taken
    <3>4. \A t \in Slot : n \notin Stored(t)'
      BY <1>2, <3>1 DEF Pending, OneSlot
    <3>5. QED
      BY <3>2, <3>3, <3>4
  <2>3. CASE /\ \A s \in T : n \notin Observed(s, draw[s[2]+1])
             /\ \A s \in T : n \notin Stored(s)
    <3>1. hits'[n] = hits[n] /\ fate'[n] = fate[n]
      BY <1>1, <2>3 DEF Taken
    <3>2. \A t \in Slot : n \in Stored(t)' <=> n \in Stored(t)
      BY <1>2, <2>3
    <3>3. QED
      BY <1>4, <3>1, <3>2
  <2>4. QED
    BY <2>1, <2>2, <2>3
<1>6. PendingIsStored'
  BY <1>5 DEF PendingIsStored
<1>7. Fresh'
  BY <1>2, <1>5 DEF Pending, Fresh
<1>8. QED
  BY <1>3, <1>6, <1>7 DEF Pending

\* A new interaction goes to one slot, and takes those it replaces out of it.
LEMMA PendingInteract ==
  ASSUME Types, Pending, NEW i \in DOMAIN seen, NEW j \in DOMAIN seen[i].widgets, Interact(i, j)
  PROVE  Pending'
<1>1. PICK n \in Act, S \in SUBSET Slot, over \in SUBSET Act : Interacted(i, j, n, S, over)
  BY InteractFacts DEF Pending
<1>2. /\ n = Len(acts) + 1 /\ Len(acts') = n /\ Len(acts) \in Nat
      /\ \A s \in Slot : n \notin Stored(s)
      /\ hits' = hits /\ \A s, t \in S : s = t
      /\ fate'[n] = IF S = {} THEN "lost" ELSE "pending"
      /\ \A k \in over : fate'[k] \in {"superseded", "lost"}
      /\ \A k \in Act : k # n /\ k \notin over => fate'[k] = fate[k]
  <2>1. Len(acts) \in Nat
    BY DEF Types
  <2>2. /\ n = Len(acts) + 1 /\ Len(acts') = n /\ S = SlotId(i-1, j-1)
        /\ \A s \in Slot : n \notin Stored(s)
        /\ hits' = hits
        /\ fate'[n] = IF S = {} THEN "lost" ELSE "pending"
        /\ \A k \in Act : k # n /\ k \notin over => fate'[k] = fate[k]
    BY <1>1 DEF Interacted
  <2>3. \A k \in over : fate'[k] \in {"superseded", "lost"}
    BY <1>1 DEF Interacted
  <2>4. \A s, t \in S : s = t
    BY <2>2 DEF SlotId
  <2>5. QED
    BY <2>1, <2>2, <2>3, <2>4
<1>3. \A s \in Slot \ S : Stored(s)' = Stored(s)
  BY <1>1 DEF Interacted, Stored
<1>4. \A s \in S : Stored(s)' = (Stored(s) \ over) \cup {n}
  <2>1. TAKE s \in S
  <2>2. s \in Slot /\ n # 0
    BY ActFacts
  <2>3. CASE seen[i].widgets[j] \in Buttons
    <3>1. slots'[s].clicks = slots[s].clicks \cup {n} /\ slots'[s].value = slots[s].value /\ over = {}
      BY <1>1, <2>3 DEF Interacted
    <3>2. QED
      BY <3>1 DEF Stored
  <2>4. CASE seen[i].widgets[j] \notin Buttons
    <3>1. slots'[s].clicks = {} /\ slots'[s].value = n /\ over = UNION {Stored(x) : x \in S}
      BY <1>1, <2>4 DEF Interacted
    <3>2. Stored(s) \subseteq over
      BY <3>1
    <3>3. Stored(s)' = {n}
      BY <2>2, <3>1 DEF Stored
    <3>4. QED
      BY <3>2, <3>3
  <2>5. QED
    BY <2>3, <2>4
<1>5. \A k \in over : \E s \in S : k \in Stored(s)
  BY <1>1 DEF Interacted
<1>6. OneSlot'
  <2>1. SUFFICES ASSUME NEW k \in Act, NEW s \in Slot, NEW t \in Slot, k \in Stored(s)', k \in Stored(t)'
                 PROVE  s = t
    BY DEF OneSlot
  <2>2. CASE k = n
    BY <1>2, <1>3, <2>1, <2>2
  <2>3. CASE k # n
    <3>1. k \in Stored(s) /\ k \in Stored(t)
      BY <1>3, <1>4, <2>1, <2>3
    <3>2. QED
      BY <3>1 DEF Pending, OneSlot
  <2>4. QED
    BY <2>2, <2>3
<1>7. ASSUME NEW k \in Act
      PROVE  /\ fate[k] = "pending" <=> \E s \in Slot : k \in Stored(s)
             /\ hits[k] <= 1
             /\ hits[k] = 1 <=> fate[k] \in {"hit", "wrong"}
  BY DEF Pending, PendingIsStored
<1>8. fate[n] = "none"
  BY <1>2 DEF Pending, Fresh
<1>9. ASSUME NEW k \in Act
      PROVE  /\ fate'[k] = "pending" <=> \E s \in Slot : k \in Stored(s)'
             /\ hits'[k] <= 1
             /\ hits'[k] = 1 <=> fate'[k] \in {"hit", "wrong"}
  <2>1. CASE k = n
    <3>1. hits[k] # 1
      BY <1>7, <1>8, <2>1
    <3>2. (\E s \in Slot : k \in Stored(s)') <=> S # {}
      BY <1>2, <1>3, <1>4, <2>1
    <3>3. QED
      BY <1>2, <1>7, <2>1, <3>1, <3>2
  <2>2. CASE k \in over
    <3>1. PICK s \in S : k \in Stored(s)
      BY <1>5, <2>2
    <3>2. fate[k] = "pending" /\ k # n
      BY <1>2, <1>7, <3>1
    <3>3. \A t \in Slot : k \notin Stored(t)'
      <4>1. TAKE t \in Slot
      <4>2. CASE t \in S
        BY <1>4, <2>2, <3>2, <4>2
      <4>3. CASE t \notin S
        BY <1>3, <3>1, <4>3 DEF Pending, OneSlot
      <4>4. QED
        BY <4>2, <4>3
    <3>4. QED
      BY <1>2, <1>7, <2>2, <3>2, <3>3
  <2>3. CASE k # n /\ k \notin over
    <3>1. \A s \in Slot : k \in Stored(s)' <=> k \in Stored(s)
      BY <1>3, <1>4, <2>3
    <3>2. QED
      BY <1>2, <1>7, <2>3, <3>1
  <2>4. QED
    BY <2>1, <2>2, <2>3
<1>10. PendingIsStored'
  BY <1>9 DEF PendingIsStored
<1>11. Fresh'
  <2>1. SUFFICES ASSUME NEW k \in Act, k > n PROVE fate'[k] = "none"
    BY <1>2 DEF Fresh
  <2>2. k > Len(acts) /\ k # n
    BY <1>2, <2>1, ActFacts
  <2>3. fate[k] = "none"
    BY <2>2 DEF Pending, Fresh
  <2>4. k \notin over
    BY <1>5, <1>7, <2>3
  <2>5. QED
    BY <1>2, <2>2, <2>3, <2>4
<1>12. QED
  BY <1>6, <1>10, <1>11 DEF Pending

\* Every other step leaves the slots and the interactions alone.
LEMMA PendingKept ==
  ASSUME Types, Pending, [Next]_vars
  PROVE  Pending'
<1>1. ASSUME UNCHANGED <<slots, acts, fate, hits>> PROVE Pending'
  BY <1>1 DEF Pending, PendingIsStored, OneSlot, Fresh, Stored
<1>2. ASSUME NEW draw \in world.draws, Draw(draw) \/ DrawFault(draw) PROVE Pending'
  <2>1. BuildingAt /\ Take(Len(rec), reg[at].mod, draw)
    BY <1>2 DEF Draw, DrawFault
  <2>2. Len(rec) \in Nat /\ reg[at].mod \in Mods
    BY <2>1, RecordFacts DEF Types
  <2>3. QED
    BY <2>1, <2>2, PendingTake
<1>3. QED
  BY <1>1, <1>2, PendingInteract
     DEF Next, vars, Build, Register, BuildBegin, SkipUnused, BuildEnd, Fetch, actVars

\* No build has recorded anything yet.
LEMMA RecordedEmpty == rec = <<>> /\ at = 1 => Recorded
<1>1. SUFFICES ASSUME rec = <<>>, at = 1 PROVE Recorded
  OBVIOUS
<1>2. DOMAIN rec = {} /\ 1..at-1 = {}
  BY <1>1
<1>3. [i \in {} |-> 0] \in [DOMAIN rec -> 1..at-1]
  BY <1>2
<1>4. QED
  BY <1>2, <1>3 DEF Recorded, Drawn

\* A build records the entries it passes, but for those it skips or disables.
LEMMA RecordedKept ==
  ASSUME Types, Recorded, [Next]_vars
  PROVE  Recorded'
<1>0. /\ reg \in Seq(Entry) /\ Len(reg) \in Nat /\ DOMAIN reg = 1..Len(reg)
      /\ rec \in Seq(Surface) /\ Len(rec) \in Nat /\ DOMAIN rec = 1..Len(rec)
      /\ at \in Nat \ {0} /\ at <= Len(reg) + 1
      /\ 1..at-1 \subseteq DOMAIN reg /\ at \notin 1..at-1 /\ 1..at = 1..at-1 \cup {at}
      /\ (at + 1) - 1 = at
  BY DEF Types
<1>1. PICK from \in [DOMAIN rec -> 1..at-1] :
        /\ Drawn(from, rec, reg, at-1)
        /\ \A i \in DOMAIN rec : reg[from[i]].used /\ reg[from[i]].mod = rec[i].mod
        /\ \A i, j \in DOMAIN rec : i < j => from[i] < from[j]
        /\ \A k \in 1..at-1 : reg[k].used => \E i \in DOMAIN rec : from[i] = k
  BY DEF Recorded, Drawn
<1>2. ASSUME rec' = <<>>, at' = 1 PROVE Recorded'
  <2>1. DOMAIN rec' = {} /\ 1..at'-1 = {}
    BY <1>2
  <2>2. [i \in {} |-> 0] \in [DOMAIN rec' -> 1..at'-1]
    BY <2>1
  <2>3. QED
    BY <1>2, <2>1, <2>2 DEF Recorded, Drawn
<1>3. ASSUME UNCHANGED <<reg, rec, at>> PROVE Recorded'
  BY <1>1, <1>3 DEF Recorded
<1>4. ASSUME NEW m \in Mods, Register(m) PROVE Recorded'
  BY <1>2, <1>4 DEF Register, Types, buildVars
<1>5. CASE SkipUnused
  <2>1. rec' = rec /\ reg' = reg /\ at' = at + 1 /\ ~reg[at].used
    BY <1>5 DEF SkipUnused
  <2>2. from \in [DOMAIN rec -> 1..at]
    BY <1>0
  <2>3. \A k \in 1..at : reg[k].used => \E i \in DOMAIN rec : from[i] = k
    BY <1>0, <1>1, <2>1
  <2>4. Drawn(from, rec', reg', at) /\ at'-1 = at
    BY <1>0, <1>1, <2>1, <2>2, <2>3 DEF Drawn
  <2>5. QED
    BY <2>1, <2>2, <2>4 DEF Recorded
<1>6. ASSUME NEW draw \in world.draws, Draw(draw) PROVE Recorded'
  <2>1. /\ BuildingAt /\ reg[at].used /\ at' = at + 1 /\ reg' = reg
        /\ rec' = Append(rec, [mod |-> reg[at].mod, widgets |-> draw])
    BY <1>6 DEF Draw
  <2>2. /\ DOMAIN rec' = DOMAIN rec \cup {Len(rec) + 1} /\ Len(rec) + 1 \notin DOMAIN rec
        /\ \A i \in DOMAIN rec : rec'[i] = rec[i] /\ i < Len(rec) + 1 /\ ~(Len(rec) + 1 < i)
        /\ rec'[Len(rec) + 1].mod = reg[at].mod
    BY <1>0, <2>1, RecordFacts
  <2> DEFINE to == [i \in DOMAIN rec' |-> IF i \in DOMAIN rec THEN from[i] ELSE at]
  <2>3. to \in [DOMAIN rec' -> 1..at]
    BY <1>0, <2>2
  <2>4. (\A i \in DOMAIN rec : to[i] = from[i] /\ to[i] \in 1..at-1) /\ to[Len(rec) + 1] = at
    BY <2>2
  <2> HIDE DEF to
  <2>5. ASSUME NEW i \in DOMAIN rec' PROVE reg[to[i]].used /\ reg[to[i]].mod = rec'[i].mod
    BY <1>1, <2>1, <2>2, <2>4
  <2>6. ASSUME NEW i \in DOMAIN rec', NEW j \in DOMAIN rec', i < j PROVE to[i] < to[j]
    <3>1. CASE j \in DOMAIN rec
      <4>1. i \in DOMAIN rec
        BY <2>2, <2>6, <3>1
      <4>2. QED
        BY <1>1, <2>4, <2>6, <3>1, <4>1
    <3>2. CASE j = Len(rec) + 1
      <4>1. i \in DOMAIN rec
        BY <1>0, <2>2, <2>6, <3>2
      <4>2. QED
        BY <1>0, <2>4, <3>2, <4>1
    <3>3. QED
      BY <2>2, <3>1, <3>2
  <2>7. ASSUME NEW k \in 1..at, reg[k].used PROVE \E i \in DOMAIN rec' : to[i] = k
    <3>1. CASE k = at
      BY <2>2, <2>4, <3>1
    <3>2. CASE k \in 1..at-1
      BY <1>1, <2>2, <2>4, <2>7, <3>2
    <3>3. QED
      BY <1>0, <3>1, <3>2
  <2>8. Drawn(to, rec', reg', at) /\ at'-1 = at
    BY <1>0, <2>1, <2>3, <2>5, <2>6, <2>7 DEF Drawn
  <2>9. QED
    BY <2>3, <2>8 DEF Recorded
<1>7. ASSUME NEW draw \in world.draws, DrawFault(draw) PROVE Recorded'
  <2>1. BuildingAt /\ at' = at + 1 /\ rec' = rec /\ reg' = [reg EXCEPT ![at].used = FALSE]
    BY <1>7 DEF DrawFault
  <2>2. (\A k \in 1..at-1 : reg'[k] = reg[k]) /\ reg'[at].used = FALSE
    BY <1>0, <2>1, FaultFacts
  <2>3. from \in [DOMAIN rec -> 1..at]
    BY <1>0
  <2>4. \A k \in 1..at : reg'[k].used => \E i \in DOMAIN rec : from[i] = k
    BY <1>0, <1>1, <2>2
  <2>5. \A i \in DOMAIN rec : reg'[from[i]].used /\ reg'[from[i]].mod = rec[i].mod
    BY <1>1, <2>2
  <2>6. Drawn(from, rec', reg', at) /\ at'-1 = at
    BY <1>0, <1>1, <2>1, <2>3, <2>4, <2>5 DEF Drawn
  <2>7. QED
    BY <2>1, <2>3, <2>6 DEF Recorded
<1>8. CASE BuildEnd
  BY <1>2, <1>8 DEF BuildEnd
<1>9. QED
  BY <1>3, <1>4, <1>5, <1>6, <1>7, <1>8
     DEF Next, vars, Build, BuildBegin, Fetch, Interact, buildVars

\* A finished build shows the surfaces in use.
LEMMA BuildShows ==
  ASSUME Types, Recorded, BuildEnd
  PROVE  snap' = rec /\ ShowsUsed(rec)
<1>0. /\ reg \in Seq(Entry) /\ Len(reg) \in Nat /\ DOMAIN reg = 1..Len(reg)
      /\ at \in Nat \ {0} /\ at <= Len(reg) + 1 /\ 1..at-1 \subseteq DOMAIN reg
      /\ \A k \in DOMAIN reg : k \notin 1..at-1 => k >= at
  BY DEF Types
<1>1. PICK from \in [DOMAIN rec -> 1..at-1] :
        /\ Drawn(from, rec, reg, at-1)
        /\ \A i \in DOMAIN rec : reg[from[i]].used /\ reg[from[i]].mod = rec[i].mod
        /\ \A i, j \in DOMAIN rec : i < j => from[i] < from[j]
        /\ \A k \in 1..at-1 : reg[k].used => \E i \in DOMAIN rec : from[i] = k
  BY DEF Recorded, Drawn
<1>2. from \in [DOMAIN rec -> DOMAIN reg]
  BY <1>0
<1>3. ASSUME NEW k \in DOMAIN reg, reg[k].used
      PROVE  \/ \E i \in DOMAIN rec : from[i] = k
             \/ Len(rec) = MaxSurfaces /\ \A i \in DOMAIN rec : from[i] < k
  <2>1. CASE k \in 1..at-1
    BY <1>1, <1>3, <2>1
  <2>2. CASE k \notin 1..at-1
    <3>1. k >= at /\ at <= Len(reg)
      BY <1>0, <2>2
    <3>2. Len(rec) = MaxSurfaces
      BY <1>0, <3>1 DEF BuildEnd
    <3>3. \A i \in DOMAIN rec : from[i] \in 1..at-1
      OBVIOUS
    <3>4. \A i \in DOMAIN rec : from[i] < k
      BY <1>0, <3>1, <3>3
    <3>5. QED
      BY <3>2, <3>4
  <2>3. QED
    BY <2>1, <2>2
<1>4. ShowsUsed(rec)
  BY <1>1, <1>2, <1>3 DEF ShowsUsed
<1>5. snap' = rec
  BY DEF BuildEnd, Changed
<1>6. QED
  BY <1>4, <1>5

\* Nothing changes how the mods of a behaviour act.
LEMMA WorldKept == [Next]_vars => world' = world /\ Steady' = Steady
BY DEF Next, vars, Register, Build, BuildBegin, SkipUnused, BuildEnd, Draw, DrawFault, Fetch,
       Interact, Steady

\* Snapshots and slots that fit the registry still fit it when it has grown.
LEMMA AlignedGrows ==
  ASSUME Types, SteadyOK, Steady, world' = world,
         Len(reg) \in Nat, Len(reg') \in Nat, Len(reg) <= Len(reg'),
         DOMAIN reg \subseteq DOMAIN reg',
         \A i \in DOMAIN reg : reg'[i] = reg[i]
  PROVE  /\ \A s \in Seq(Surface) : Aligned(s) => Len(s) <= Len(reg') /\ \A i \in DOMAIN s : s[i].mod = reg'[i].mod
         /\ acts' = acts /\ slots' = slots =>
               \A s \in Slot : \A n \in Stored(s)' : AtHome(s, n)'
<1>1. ASSUME NEW s \in Seq(Surface), Aligned(s)
      PROVE  Len(s) <= Len(reg') /\ \A i \in DOMAIN s : s[i].mod = reg'[i].mod
  <2>1. Len(s) \in Nat /\ DOMAIN s = 1..Len(s) /\ DOMAIN reg = 1..Len(reg) /\ Len(s) <= Len(reg)
    BY <1>1 DEF Types, Aligned
  <2>2. \A i \in DOMAIN s : i \in DOMAIN reg
    BY <2>1
  <2>3. QED
    BY <1>1, <2>1, <2>2 DEF Aligned
<1>2. ASSUME acts' = acts, slots' = slots, NEW s \in Slot, NEW n \in Stored(s)'
      PROVE  AtHome(s, n)'
  <2>1. n \in Stored(s)
    BY <1>2 DEF Stored
  <2>2. AtHome(s, n)
    BY <2>1 DEF SteadyOK
  <2>3. QED
    BY <1>2, <2>2 DEF AtHome, Observed
<1>3. QED
  BY <1>1, <1>2

\* In a steady world a draw delivers what is in its slots to the right widget.
LEMMA SteadyDraw ==
  ASSUME Types, SteadyOK, Steady, ReachesItsCallback, NEW draw \in world.draws, Draw(draw)
  PROVE  SteadyOK' /\ ReachesItsCallback'
<1>1. /\ BuildingAt /\ reg[at].used /\ at' = at + 1 /\ reg' = reg /\ snap' = snap /\ seen' = seen
      /\ rec' = Append(rec, [mod |-> reg[at].mod, widgets |-> draw])
      /\ Take(Len(rec), reg[at].mod, draw) /\ world' = world
  BY DEF Draw
<1>2. /\ reg[at].mod \in Mods /\ Len(rec) \in Nat /\ DOMAIN rec = 1..Len(rec)
      /\ DOMAIN rec' = 1..Len(rec) + 1 /\ Len(rec') = Len(rec) + 1
      /\ \A i \in DOMAIN rec : rec'[i] = rec[i]
      /\ rec'[Len(rec) + 1].mod = reg[at].mod
      /\ at \in DOMAIN reg /\ at \in Nat /\ Len(reg) \in Nat /\ at <= Len(reg)
  BY SMTT(30), <1>1, RecordFacts DEF Types, BuildingAt
<1>3. /\ \A i \in DOMAIN reg : reg[i].used
      /\ Len(rec) = at - 1
      /\ Aligned(rec) /\ Aligned(snap) /\ Aligned(seen)
      /\ \A s \in Slot : \A n \in Stored(s) : AtHome(s, n)
      /\ \A n \in Act : fate[n] \notin {"wrong", "lost"}
  BY DEF SteadyOK, ReachesItsCallback
<1>4. PICK T \in SUBSET Slot : /\ \A s \in T : s[1] = Len(rec) /\ s[2] + 1 \in DOMAIN draw
                               /\ Taken(reg[at].mod, draw, T)
  <2>1. reg[at].mod \in Mods /\ Len(rec) \in Nat /\ Take(Len(rec), reg[at].mod, draw)
    BY <1>1, <1>2
  <2>2. QED
    BY <2>1, TakeFacts
<1>5. Len(rec') = at' - 1
  BY <1>1, <1>2, <1>3
<1>6. Len(rec') <= Len(reg) /\ \A i \in DOMAIN rec' : rec'[i].mod = reg[i].mod
  <2>1. \A i \in DOMAIN rec' : i \in DOMAIN rec \/ i = Len(rec) + 1
    BY <1>2
  <2>2. at = Len(rec) + 1
    BY <1>2, <1>3
  <2>3. QED
    BY <1>2, <1>3, <2>1, <2>2 DEF Aligned
<1>7. ASSUME NEW s \in Slot, NEW n \in Stored(s)' PROVE AtHome(s, n)'
  <2>1. s \notin T /\ n \in Stored(s) /\ slots'[s] = slots[s] /\ acts' = acts
    BY <1>4, <1>7 DEF Taken
  <2>2. AtHome(s, n)
    BY <1>3, <2>1
  <2>3. QED
    BY <1>1, <2>1, <2>2 DEF AtHome, Observed
<1>8. SteadyOK'
  <2>1. Aligned(snap)' /\ Aligned(seen)' /\ \A i \in DOMAIN reg' : reg'[i].used
    BY <1>1, <1>3 DEF Aligned
  <2>2. Aligned(rec)'
    BY <1>1, <1>6 DEF Aligned
  <2>3. QED
    BY <1>5, <1>7, <2>1, <2>2 DEF SteadyOK
<1>9. ASSUME NEW s \in T, NEW n \in Stored(s)
      PROVE  n \in Observed(s, draw[s[2]+1]) /\ acts[n] = <<reg[at].mod, draw[s[2]+1]>>
  <2>1. AtHome(s, n)
    BY <1>3
  <2>2. s[1] + 1 = at
    BY <1>2, <1>3, <1>4
  <2>3. QED
    BY <2>1, <2>2 DEF AtHome
<1>10. ASSUME NEW n \in Act PROVE fate'[n] \notin {"wrong", "lost"}
  <2>1. CASE \E s \in T : n \in Observed(s, draw[s[2]+1])
    <3>1. \E s \in T : n \in Observed(s, draw[s[2]+1]) /\ acts[n] = <<reg[at].mod, draw[s[2]+1]>>
      BY <1>9, <2>1, StoredFacts
    <3>2. fate'[n] = "hit"
      BY <1>4, <3>1 DEF Taken
    <3>3. QED
      BY <3>2
  <2>2. CASE \A s \in T : n \notin Observed(s, draw[s[2]+1])
    <3>1. \A s \in T : n \notin Stored(s)
      BY <1>9, <2>2
    <3>2. fate'[n] = fate[n]
      BY <1>4, <2>2, <3>1 DEF Taken
    <3>3. QED
      BY <1>3, <3>2
  <2>3. QED
    BY <2>1, <2>2
<1>11. QED
  BY <1>8, <1>10 DEF ReachesItsCallback

\* In a steady world an interaction is with the widget that owns the slot it
\* goes to, and only replaces an older one with the same widget.
LEMMA SteadyInteract ==
  ASSUME Types, Pending, SteadyOK, Steady, ReachesItsCallback,
         NEW i \in DOMAIN seen, NEW j \in DOMAIN seen[i].widgets, Interact(i, j)
  PROVE  SteadyOK' /\ ReachesItsCallback'
<1> DEFINE w == seen[i].widgets[j]
<1>1. UNCHANGED <<world, reg, pc, at, rec, snap, seen, hits>>
  BY DEF Interact, buildVars
<1>2. PICK n \in Act, S \in SUBSET Slot, over \in SUBSET Act : Interacted(i, j, n, S, over)
  BY InteractFacts DEF Pending
<1>3. /\ \A k \in DOMAIN reg : reg[k].used
      /\ Len(rec) = at - 1
      /\ Aligned(rec) /\ Aligned(snap) /\ Aligned(seen)
      /\ \A s \in Slot : \A k \in Stored(s) : AtHome(s, k)
      /\ \A k \in Act : fate[k] \notin {"wrong", "lost"}
  BY DEF SteadyOK, ReachesItsCallback
<1>4. /\ seen \in Seq(Surface) /\ Len(seen) \in Nat /\ DOMAIN seen = 1..Len(seen) /\ Len(seen) <= MaxSurfaces
      /\ reg \in Seq(Entry) /\ Len(reg) \in Nat /\ DOMAIN reg = 1..Len(reg)
  BY DEF Types
<1>5. /\ i \in Nat \ {0} /\ i <= MaxSurfaces /\ i \in DOMAIN reg /\ seen[i].mod = reg[i].mod
      /\ seen[i] \in Surface
  BY <1>3, <1>4 DEF Aligned
<1>6. /\ seen[i].widgets \in world.draws
      /\ \A draw \in world.draws : draw = seen[i].widgets
      /\ Len(seen[i].widgets) <= MaxWidgets
  BY <1>5 DEF Surface, Steady
<1>7. j \in Nat \ {0} /\ j <= MaxWidgets
  <2>1. seen[i].widgets \in Seq(Widget)
    BY <1>6, ActFacts
  <2>2. Len(seen[i].widgets) \in Nat /\ DOMAIN seen[i].widgets = 1..Len(seen[i].widgets)
    BY <2>1
  <2>3. QED
    BY <1>6, <2>2
<1>8. <<i-1, j-1>> \in Slot
  BY <1>5, <1>7 DEF Slot
<1>9. S = {<<i-1, j-1>>}
  <2>1. S = SlotId(i-1, j-1)
    BY <1>2 DEF Interacted
  <2>2. QED
    BY <1>8, <2>1 DEF SlotId
<1>10. \A s \in S : s[1] + 1 = i /\ s[2] + 1 = j
  BY <1>5, <1>7, <1>9
<1>11. \A s \in S : \A k \in Stored(s) : acts[k] = <<seen[i].mod, w>>
  BY <1>3, <1>5, <1>6, <1>10 DEF AtHome
<1>12. \A k \in Act : fate'[k] \notin {"wrong", "lost"}
  <2>1. fate'[n] = "pending"
    BY ZenonT(60), <1>2, <1>9 DEF Interacted
  <2>2. ASSUME NEW k \in over PROVE fate'[k] = "superseded"
    <3>1. \E s \in S : k \in Stored(s)
      BY <1>2, <2>2 DEF Interacted
    <3>2. acts[k] = <<seen[i].mod, w>>
      BY <1>11, <3>1
    <3>3. QED
      BY <1>2, <2>2, <3>2 DEF Interacted
  <2>3. \A k \in Act : k # n /\ k \notin over => fate'[k] = fate[k]
    BY <1>2 DEF Interacted
  <2>4. QED
    BY <1>3, <2>1, <2>2, <2>3
<1>13. ASSUME NEW s \in Slot, NEW k \in Stored(s)
       PROVE  k \in Act /\ k # n /\ acts'[k] = acts[k]
  <2>1. k \in Act /\ k # n
    BY <1>2, <1>13, StoredFacts DEF Interacted
  <2>2. fate[k] = "pending"
    BY <1>13, <2>1 DEF Pending, PendingIsStored
  <2>3. ~(k > Len(acts))
    BY <2>1, <2>2 DEF Pending, Fresh
  <2>4. k < n
    <3>1. Len(acts) \in Nat /\ n = Len(acts) + 1
      BY <1>2 DEF Types, Interacted
    <3>2. QED
      BY <2>1, <2>3, <3>1, ActFacts
  <2>5. QED
    BY <1>2, <2>1, <2>4 DEF Interacted
<1>14. ASSUME NEW s \in Slot, NEW k \in Stored(s)' PROVE AtHome(s, k)'
  <2>1. CASE s \notin S
    <3>1. slots'[s] = slots[s]
      BY <1>2, <2>1 DEF Interacted
    <3>2. k \in Stored(s)
      BY <1>14, <3>1 DEF Stored
    <3>3. AtHome(s, k) /\ acts'[k] = acts[k]
      BY <1>3, <1>13, <3>2
    <3>4. QED
      BY <1>1, <3>1, <3>3 DEF AtHome, Observed
  <2>2. CASE s \in S /\ k = n
    <3>1. s[1] + 1 = i /\ s[2] + 1 = j
      BY <1>10, <2>2
    <3>2. acts'[n] = <<reg[i].mod, w>>
      BY <1>2, <1>5 DEF Interacted
    <3>3. n \in Observed(s, w)'
      <4>1. CASE w \in Buttons
        <5>1. slots'[s].clicks = slots[s].clicks \cup {n}
          BY <1>2, <2>2, <4>1 DEF Interacted
        <5>2. w' = w
          BY <1>1
        <5>3. QED
          BY <4>1, <5>1, <5>2 DEF Observed
      <4>2. CASE w \notin Buttons
        <5>1. slots'[s].value = n /\ n # 0
          BY <1>2, <2>2, <4>2, ActFacts DEF Interacted
        <5>2. w' = w
          BY <1>1
        <5>3. QED
          BY <4>2, <5>1, <5>2 DEF Observed
      <4>3. QED
        BY <4>1, <4>2
    <3>4. \A draw \in world.draws : draw = seen[i].widgets
      BY <1>6
    <3>5. QED
      BY <1>1, <1>5, <2>2, <3>1, <3>2, <3>3, <3>4 DEF AtHome
  <2>3. CASE s \in S /\ k # n
    <3>1. w \in Buttons
      <4>1. ASSUME w \notin Buttons PROVE FALSE
        <5>1. slots'[s].clicks = {} /\ slots'[s].value = n
          BY <1>2, <2>3, <4>1 DEF Interacted
        <5>2. QED
          BY <1>14, <2>3, <5>1 DEF Stored
      <4>2. QED
        BY <4>1
    <3>2. slots'[s].clicks = slots[s].clicks \cup {n} /\ slots'[s].value = slots[s].value
      BY <1>2, <2>3, <3>1 DEF Interacted
    <3>3. k \in Stored(s)
      BY <1>14, <2>3, <3>2 DEF Stored
    <3>4. AtHome(s, k) /\ acts'[k] = acts[k]
      BY <1>3, <1>13, <3>3
    <3>5. \A x : k \in Observed(s, x) => k \in Observed(s, x)'
      BY <3>2 DEF Observed
    <3>6. QED
      BY <1>1, <3>4, <3>5 DEF AtHome
  <2>4. QED
    BY <2>1, <2>2, <2>3
<1>15. SteadyOK'
  <2>1. Aligned(snap)' /\ Aligned(seen)' /\ Aligned(rec)' /\ Len(rec') = at' - 1
        /\ \A k \in DOMAIN reg' : reg'[k].used
    BY <1>1, <1>3 DEF Aligned
  <2>2. QED
    BY <1>14, <2>1 DEF SteadyOK
<1>16. QED
  BY <1>12, <1>15 DEF ReachesItsCallback

\* Every step keeps a steady world in order.
LEMMA SteadyKept ==
  ASSUME Types, Pending, SteadyOK, ReachesItsCallback, [Next]_vars
  PROVE  SteadyOK' /\ ReachesItsCallback'
<1>0. world' = world /\ Steady' = Steady
  BY WorldKept
<1>1. CASE ~Steady
  BY <1>0, <1>1 DEF SteadyOK, ReachesItsCallback
<1>2. SUFFICES ASSUME Steady PROVE SteadyOK' /\ ReachesItsCallback'
  BY <1>1
<1>3. /\ \A i \in DOMAIN reg : reg[i].used
      /\ Len(rec) = at - 1
      /\ Aligned(rec) /\ Aligned(snap) /\ Aligned(seen)
      /\ \A s \in Slot : \A n \in Stored(s) : AtHome(s, n)
      /\ \A n \in Act : fate[n] \notin {"wrong", "lost"}
  BY <1>2 DEF SteadyOK, ReachesItsCallback
<1>4. ASSUME reg' = reg, fate' = fate, acts' = acts, slots' = slots,
             Len(rec') = at' - 1, Aligned(rec)', Aligned(snap)', Aligned(seen)'
      PROVE  SteadyOK' /\ ReachesItsCallback'
  <2>1. ASSUME NEW s \in Slot, NEW n \in Stored(s)' PROVE AtHome(s, n)'
    <3>1. n \in Stored(s)
      BY <1>4, <2>1 DEF Stored
    <3>2. AtHome(s, n)
      BY <1>3, <3>1
    <3>3. QED
      BY <1>0, <1>4, <3>2 DEF AtHome, Observed
  <2>2. QED
    BY <1>3, <1>4, <2>1 DEF SteadyOK, ReachesItsCallback
<1>5. ASSUME NEW m \in Mods, Register(m) PROVE SteadyOK' /\ ReachesItsCallback'
  <2>1. UNCHANGED <<world, pc, at, rec, snap, seen, slots, acts, fate, hits>>
    BY <1>5 DEF Register, buildVars, actVars
  <2>2. /\ reg' \in Seq(Entry) /\ reg \in Seq(Entry) /\ Len(reg) <= Len(reg')
        /\ \A i \in DOMAIN reg' : reg'[i].used
        /\ \A i \in DOMAIN reg : reg'[i] = reg[i]
    BY <1>3, <1>5, RegisterFacts DEF Types
  <2>3. Len(reg) \in Nat /\ Len(reg') \in Nat /\ DOMAIN reg \subseteq DOMAIN reg'
    BY <2>2
  <2>4. rec \in Seq(Surface) /\ snap \in Seq(Surface) /\ seen \in Seq(Surface)
    BY DEF Types
  <2>5. \A s \in Seq(Surface) : Aligned(s) => Len(s) <= Len(reg') /\ \A i \in DOMAIN s : s[i].mod = reg'[i].mod
    BY <1>0, <1>2, <2>2, <2>3, AlignedGrows
  <2>8. Aligned(rec)' /\ Aligned(snap)' /\ Aligned(seen)'
    BY <1>3, <2>1, <2>4, <2>5 DEF Aligned
  <2>6. \A s \in Slot : \A n \in Stored(s)' : AtHome(s, n)'
    BY <1>0, <1>2, <2>1, <2>2, <2>3, AlignedGrows
  <2>7. QED
    BY <1>3, <2>1, <2>2, <2>8, <2>6 DEF SteadyOK, ReachesItsCallback
<1>6. ASSUME BuildBegin \/ UNCHANGED vars PROVE SteadyOK' /\ ReachesItsCallback'
  <2>1. UNCHANGED <<reg, at, rec, snap, seen, slots, acts, fate>>
    BY <1>6 DEF BuildBegin, vars, actVars
  <2>2. QED
    BY <1>3, <1>4, <2>1 DEF Aligned
<1>7. CASE SkipUnused
  <2>1. at \in DOMAIN reg /\ ~reg[at].used
    BY <1>7 DEF SkipUnused, BuildingAt, Types
  <2>2. QED
    BY <1>3, <2>1
<1>8. CASE BuildEnd
  <2>1. /\ UNCHANGED <<reg, seen, slots, acts, fate>> /\ at' = 1 /\ rec' = <<>>
        /\ snap' = rec
    BY <1>8 DEF BuildEnd, actVars, Changed
  <2>2. Len(<<>>) = 0 /\ DOMAIN <<>> = {} /\ Len(reg) \in Nat
    BY DEF Types
  <2>3. Len(rec') = at' - 1 /\ Aligned(rec)'
    BY <2>1, <2>2 DEF Aligned
  <2>4. Aligned(snap)' /\ Aligned(seen)'
    BY <1>3, <2>1 DEF Aligned
  <2>5. QED
    BY <1>4, <2>1, <2>3, <2>4
<1>9. CASE Fetch
  <2>1. UNCHANGED <<reg, at, rec, snap, slots, acts, fate>> /\ seen' = snap
    BY <1>9 DEF Fetch, buildVars, actVars
  <2>2. QED
    BY <1>3, <1>4, <2>1 DEF Aligned
<1>10. ASSUME NEW draw \in world.draws, DrawFault(draw) PROVE FALSE
  BY <1>2, <1>10 DEF DrawFault, Steady
<1>11. QED
  BY <1>2, <1>5, <1>6, <1>7, <1>8, <1>9, <1>10, SteadyDraw, SteadyInteract DEF Next, Build

\* The empty registry is in order.
LEMMA RestInit == Init => Recorded /\ SteadyOK /\ ReachesItsCallback
<1>1. SUFFICES ASSUME Init PROVE Recorded /\ SteadyOK /\ ReachesItsCallback
  OBVIOUS
<1>2. /\ reg = <<>> /\ rec = <<>> /\ snap = <<>> /\ seen = <<>> /\ at = 1
      /\ \A n \in Act : fate[n] = "none"
      /\ \A s \in Slot : slots[s].clicks = {} /\ slots[s].value = 0
  BY <1>1 DEF Init, EmptySlot
<1>3. Len(<<>>) = 0 /\ DOMAIN <<>> = {}
  OBVIOUS
<1>4. \A s \in Slot : Stored(s) = {}
  BY <1>2 DEF Stored
<1>5. SteadyOK
  BY <1>2, <1>3, <1>4 DEF SteadyOK, Aligned
<1>6. QED
  BY <1>2, <1>5, RecordedEmpty DEF ReachesItsCallback

\* The inductive invariant: types, the slots hold the pending interactions, one
\* each, the build so far shows the entries passed, and in a steady world every
\* snapshot fits the registry and every slot the widget it belongs to.
THEOREM Invariant == Spec => []IInv
<1>1. Init => IInv
  BY TypesInit, PendingInit, RestInit DEF IInv, Pending
<1>2. IInv /\ [Next]_vars => IInv'
  BY TypesKept, PendingKept, RecordedKept, SteadyKept DEF IInv, Pending
<1>3. QED
  BY <1>1, <1>2, PTL DEF Spec

\* The type invariant.
THEOREM TypeCorrect == Spec => []TypeOK
<1>1. IInv => TypeOK
  <2>1. SUFFICES ASSUME Types PROVE TypeOK
    BY DEF IInv
  <2>2. ASSUME NEW s \in Seq(Surface), Len(s) <= MaxSurfaces PROVE IsSnapshot(s)
    BY <2>2 DEF IsSnapshot
  <2>3. \A i \in DOMAIN reg : reg[i] \in [mod : Mods, used : BOOLEAN]
    <3>1. reg \in Seq(Entry)
      BY <2>1 DEF Types
    <3>2. \A i \in DOMAIN reg : reg[i] \in Entry
      BY <3>1
    <3>3. QED
      BY <3>2 DEF Entry
  <2>4. at \in 1..world.regs+1
    BY <2>1 DEF Types
  <2>5. IsSnapshot(rec) /\ IsSnapshot(snap) /\ IsSnapshot(seen)
    BY <2>1, <2>2 DEF Types
  <2>6. QED
    BY <2>1, <2>3, <2>4, <2>5 DEF Types, TypeOK
<1>2. QED
  BY <1>1, Invariant, PTL

\* The input slots hold exactly the interactions still pending, whatever the
\* mods draw and whoever faults, and no interaction is delivered twice.
THEOREM SlotsHoldPending == Spec => []PendingIsStored
BY Invariant, PTL DEF IInv

\* Where callbacks keep drawing the same widgets no interaction is dropped or
\* handed to another widget, for any number of mods, surfaces and widgets.
THEOREM ReachesCallback == Spec => []ReachesItsCallback
BY Invariant, PTL DEF IInv

\* Every build publishes exactly the surfaces still in use, in order.
THEOREM ShowsTheLiving == Spec => SnapshotFaithful
<1>1. IInv /\ [Next]_vars =>
        [pc = "building" /\ pc' = "idle" => snap' = rec /\ ShowsUsed(snap')]_vars
  <2>1. SUFFICES ASSUME IInv, Next, pc = "building", pc' = "idle"
                 PROVE  snap' = rec /\ ShowsUsed(snap')
    OBVIOUS
  <2>2. BuildEnd
    BY <2>1 DEF Next, Build, Register, BuildBegin, SkipUnused, Draw, DrawFault, Fetch, Interact,
                buildVars
  <2>3. snap' = rec /\ ShowsUsed(rec)
    BY <2>1, <2>2, BuildShows DEF IInv
  <2>4. QED
    BY <2>3
<1>2. QED
  BY <1>1, Invariant, PTL DEF Spec, SnapshotFaithful
=============================================================================
