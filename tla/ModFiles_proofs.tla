-------------------------- MODULE ModFiles_proofs --------------------------
(***************************************************************************)
(* Theorems about the files a mod leaves in the game directory.  First     *)
(* launcher/core/src/install.rs, for any mods, releases and files, any     *)
(* number of calls, and whatever fails or crashes on the way; then         *)
(* oss_mods.cfg, for any settings and any doings of its two writers.       *)
(***************************************************************************)
EXTENDS ModInstall, ModConfig, FiniteSetTheorems, FunctionTheorems, SequenceTheorems,
        WellFoundedInduction, TLAPS


Call == [phase : {"none", "place", "rollback", "record", "save", "unlink"},
         mod : Mod \cup {Nothing}, rel : Release \cup {Nothing}, next : Nat \ {0},
         written : SUBSET Dest, prev : SUBSET Dest,
         before : [Dest -> Release \cup {Nothing, Damaged}]]

Types ==
    /\ disk \in [Dest -> Release \cup {Nothing, Damaged}]
    /\ mem \in Manifest /\ (saved = Nothing \/ saved \in Manifest)
    /\ call \in Call
    /\ calls \in 0..MaxCalls /\ rough \in BOOLEAN /\ hurt \subseteq Mod

\* The files some release of the mod ships.
FilesOf(m) == UNION {Shipped(r) : r \in {q \in Release : q[1] = m}}

\* Between the first file of an install and its record in the manifest.
Installing == call.phase \in {"place", "rollback", "record"}

\* What a call in progress works on.
CallIsOf ==
    /\ Installing => /\ call.rel \in Release /\ call.mod = call.rel[1]
                     /\ call.prev = mem[call.mod].files
    /\ call.phase = "place" => call.next <= Len(Ships[call.rel]) + 1
    /\ call.phase \in {"unlink", "save"} => call.mod \in Mod
    /\ call.phase = "unlink" => call.rel = Nothing /\ mem[call.mod].files = {}

\* No manifest, and no call, lists a file of another mod.
Owned ==
    /\ \A m \in Mod : mem[m].files \subseteq FilesOf(m)
    /\ saved # Nothing => \A m \in Mod : saved[m].files \subseteq FilesOf(m)
    /\ call.mod \in Mod => call.written \cup call.prev \subseteq FilesOf(call.mod)

\* Every file dealt with so far is written or was optional, and holds the
\* release's content; once recorded, this is so of the manifest's entry.
Whole ==
    /\ call.phase = "place" =>
          \A i \in 1..call.next - 1 : Ships[call.rel][i] \in call.written \cup Optional
    /\ call.phase = "record" => Shipped(call.rel) \ Optional \subseteq call.written
    /\ call.phase \in {"place", "record"} => \A d \in call.written : disk[d] = call.rel
    /\ call.phase = "save" /\ call.rel # Nothing =>
          /\ mem[call.mod].rel = call.rel
          /\ Shipped(call.rel) \ Optional \subseteq mem[call.mod].files
          /\ \A d \in mem[call.mod].files : disk[d] = call.rel

\* Files that are there although no manifest lists them: those of the call.
Unlisted == IF Installing THEN call.written
            ELSE IF call.phase = "unlink" THEN call.prev ELSE {}

NoStray == \A d \in Dest : disk[d] # Nothing =>
              d \in Unlisted \/ \E m \in Mod : d \in mem[m].files

\* The stale files are gone before the new release is recorded.
Pruned == call.phase = "record" => \A d \in call.prev \ call.written : disk[d] = Nothing

\* A listed file holds what the manifest says, but for those the call in
\* progress has overwritten or pruned.
Intact == \A m \in Mod \ hurt : \A d \in mem[m].files :
             \/ disk[d] = mem[m].rel
             \/ /\ Installing /\ m = call.mod
                /\ d \in call.written \/ call.phase = "record"

Exact == ~rough => /\ call.phase \notin {"save", "unlink"} => saved = mem
                   /\ NoStray /\ Pruned /\ Intact

IInv == Types /\ CallIsOf /\ Owned /\ Whole /\ Exact

USE ShipsAssumption, SentinelsAssumption

\* Every release is some mod's, and two mods have no file in common.
LEMMA ShippedFacts ==
  /\ \A r \in Release : r[1] \in Mod /\ Shipped(r) \subseteq FilesOf(r[1]) /\ Shipped(r) \subseteq Dest
  /\ \A m \in Mod : FilesOf(m) \subseteq Dest
  /\ \A m, n \in Mod, d \in Dest : d \in FilesOf(m) /\ d \in FilesOf(n) => m = n
BY DEF FilesOf, Dest, Mod

\* The file PlaceFile writes is one of the release being installed.
LEMMA FileFacts ==
  ASSUME Types, CallIsOf, Placing
  PROVE  /\ call.rel \in Release /\ call.mod = call.rel[1] /\ call.mod \in Mod
         /\ call.next \in DOMAIN Ships[call.rel] /\ call.next + 1 <= Len(Ships[call.rel]) + 1
         /\ File \in Shipped(call.rel) /\ File \in Dest
<1>1. call.rel \in Release /\ call.mod = call.rel[1] /\ call.mod \in Mod /\ call.next \in Nat \ {0}
  BY ShippedFacts DEF Placing, CallIsOf, Installing, Types, Call
<1>2. Ships[call.rel] \in Seq(Shipped(call.rel))
  BY <1>1
<1>3. call.next \in DOMAIN Ships[call.rel] /\ call.next + 1 <= Len(Ships[call.rel]) + 1
  BY <1>1, <1>2 DEF Placing
<1>4. File \in Shipped(call.rel)
  BY <1>3 DEF File, Shipped
<1>5. QED
  BY <1>1, <1>3, <1>4, ShippedFacts

\* remove_file on each of a set of files: the others are left alone, and where
\* nothing fails all of the set are gone.
LEMMA UnlinkFacts ==
  ASSUME Types, NEW D \in SUBSET Dest, Unlink(D)
  PROVE  /\ disk' \in [Dest -> Release \cup {Nothing, Damaged}] /\ rough' \in BOOLEAN
         /\ \A d \in Dest : disk'[d] = disk[d] \/ disk'[d] = Nothing
         /\ \A d \in Dest \ D : disk'[d] = disk[d]
         /\ ~rough' => ~rough /\ \A d \in D : disk'[d] = Nothing
<1>1. PICK gone \in SUBSET D :
        /\ disk' = [d \in Dest |-> IF d \in gone THEN Nothing ELSE disk[d]]
        /\ rough' = (rough \/ \E d \in D \ gone : disk[d] # Nothing)
  BY DEF Unlink
<1>2. rough \in BOOLEAN /\ disk \in [Dest -> Release \cup {Nothing, Damaged}]
  BY DEF Types
<1>3. rough' \in BOOLEAN
  BY <1>1, <1>2
<1>4. disk' \in [Dest -> Release \cup {Nothing, Damaged}]
  BY <1>1, <1>2
<1>5. \A d \in Dest : disk'[d] = IF d \in gone THEN Nothing ELSE disk[d]
  BY <1>1
<1>6. ASSUME ~rough' PROVE ~rough /\ \A d \in D : disk'[d] = Nothing
  <2>1. ~rough /\ \A d \in D \ gone : disk[d] = Nothing
    BY <1>1, <1>2, <1>6
  <2>2. QED
    BY <2>1, <1>5
<1>7. QED
  BY <1>3, <1>4, <1>5, <1>6

\* The empty manifest, and the call that is not in progress.
LEMMA ManifestFacts ==
  /\ Empty \in Manifest /\ None.files = {} /\ None.rel = Nothing
  /\ \A m \in Mod : Empty[m].files = {}
  /\ None \in [rel : Release \cup {Nothing}, files : SUBSET Dest]
  /\ NoCall \in Call /\ NoCall.phase = "none" /\ NoCall.rel = Nothing /\ NoCall.mod = Nothing
  /\ NoCall.written = {} /\ NoCall.prev = {} /\ NoCall.next = 1
<1>1. None = [rel |-> Nothing, files |-> {}] /\ None \in [rel : Release \cup {Nothing}, files : SUBSET Dest]
  BY DEF None
<1>2. Empty \in Manifest /\ \A m \in Mod : Empty[m] = None
  BY <1>1 DEF Empty, Manifest
<1>3. NoCall.phase = "none" /\ NoCall.rel = Nothing /\ NoCall.mod = Nothing
      /\ NoCall.written = {} /\ NoCall.prev = {} /\ NoCall.next = 1
  BY DEF NoCall
<1>4. [d \in Dest |-> Nothing] \in [Dest -> Release \cup {Nothing, Damaged}]
  OBVIOUS
<1>5. NoCall \in Call
  <2>1. ASSUME NEW b \in [Dest -> Release \cup {Nothing, Damaged}]
        PROVE  [phase |-> "none", mod |-> Nothing, rel |-> Nothing, next |-> 1,
                written |-> {}, prev |-> {}, before |-> b] \in Call
    BY DEF Call
  <2>2. QED
    BY <1>4, <2>1 DEF NoCall
<1>6. QED
  BY <1>1, <1>2, <1>3, <1>5

\* The types hold at the start.
LEMMA TypesInit == Init => Types
<1>1. [d \in Dest |-> Nothing] \in [Dest -> Release \cup {Nothing, Damaged}]
  OBVIOUS
<1>2. 0 \in 0..MaxCalls /\ FALSE \in BOOLEAN /\ {} \subseteq Mod
  OBVIOUS
<1>3. QED
  BY <1>1, <1>2, ManifestFacts DEF Init, Types

\* Updates of a call in progress that stay within its type.
LEMMA CallFields ==
  ASSUME NEW c \in Call
  PROVE  /\ \A p \in {"none", "place", "rollback", "record", "save", "unlink"} : [c EXCEPT !.phase = p] \in Call
         /\ [c EXCEPT !.next = @ + 1] \in Call
         /\ \A d \in Dest : [c EXCEPT !.next = @ + 1, !.written = @ \cup {d}] \in Call
<1>1. /\ DOMAIN c = {"phase", "mod", "rel", "next", "written", "prev", "before"}
      /\ c.next + 1 \in Nat \ {0} /\ c.written \in SUBSET Dest
  BY DEF Call
<1>2. \A p \in {"none", "place", "rollback", "record", "save", "unlink"} : [c EXCEPT !.phase = p] \in Call
  BY DEF Call
<1>3. [c EXCEPT !.next = @ + 1] \in Call
  BY <1>1 DEF Call
<1>4. ASSUME NEW d \in Dest
      PROVE  [c EXCEPT !.next = @ + 1, !.written = @ \cup {d}] \in Call
  <2>1. c.written \cup {d} \in SUBSET Dest
    BY <1>1
  <2>2. QED
    BY <1>1, <2>1 DEF Call
<1>5. QED
  BY <1>2, <1>3, <1>4

\* Every step keeps the types.
LEMMA TypesKept ==
  ASSUME Types, CallIsOf, [Next]_vars
  PROVE  Types'
<1>0. /\ disk \in [Dest -> Release \cup {Nothing, Damaged}]
      /\ mem \in Manifest /\ (saved = Nothing \/ saved \in Manifest)
      /\ call \in Call /\ calls \in 0..MaxCalls /\ rough \in BOOLEAN /\ hurt \subseteq Mod
      /\ call.written \in SUBSET Dest /\ call.prev \in SUBSET Dest
      /\ \A m \in Mod : mem[m] \in [rel : Release \cup {Nothing}, files : SUBSET Dest]
  BY DEF Types, Call, Manifest
<1>1. ASSUME NEW r \in Release, InstallBegin(r) PROVE Types'
  <2>0. r[1] \in Mod
    BY ShippedFacts
  <2>1. call' \in Call
    BY <1>0, <1>1, <2>0, ManifestFacts DEF InstallBegin, Call
  <2>2. calls' \in 0..MaxCalls
    BY <1>0, <1>1 DEF InstallBegin
  <2>3. QED
    BY <1>0, <1>1, <2>1, <2>2 DEF InstallBegin, Types
<1>2. CASE PlaceFile
  BY <1>0, <1>2, FileFacts, CallFields DEF PlaceFile, Types
<1>3. CASE SkipOptional
  BY <1>0, <1>3, CallFields DEF SkipOptional, Types
<1>4. CASE PlaceFails
  BY <1>0, <1>4, FileFacts, CallFields DEF PlaceFails, Types
<1>5. CASE Rollback
  <2>1. CASE call.mod \in Mod
    BY <1>0, <1>5, <2>1, UnlinkFacts, ManifestFacts DEF Rollback, Types
  <2>2. CASE call.mod \notin Mod
    BY <1>5, <2>2, ShippedFacts DEF Rollback, CallIsOf, Installing
  <2>3. QED
    BY <2>1, <2>2
<1>6. CASE Prune
  <2>1. Stale \in SUBSET Dest
    BY <1>0 DEF Stale
  <2>2. QED
    BY <1>0, <1>6, <2>1, UnlinkFacts, CallFields DEF Prune, Types
<1>7. CASE Record
  <2>1. call.rel \in Release \cup {Nothing}
    BY <1>0 DEF Call
  <2>2. mem' \in Manifest
    BY <1>0, <1>7, <2>1 DEF Record, Manifest
  <2>3. QED
    BY <1>0, <1>7, <2>2, CallFields DEF Record, Types
<1>8. ASSUME NEW m \in Mod, RemoveBegin(m) PROVE Types'
  <2>1. call' \in Call
    BY <1>0, <1>8, ManifestFacts DEF RemoveBegin, Call
  <2>2. mem' \in Manifest
    BY <1>0, <1>8, ManifestFacts DEF RemoveBegin, Manifest
  <2>3. calls' \in 0..MaxCalls
    BY <1>0, <1>8 DEF RemoveBegin
  <2>4. QED
    BY <1>0, <1>8, <2>1, <2>2, <2>3 DEF RemoveBegin, Types
<1>9. CASE RemoveFiles
  BY <1>0, <1>9, UnlinkFacts, CallFields DEF RemoveFiles, Types
<1>10. CASE Save
  BY <1>0, <1>10, ManifestFacts DEF Save, Types
<1>11. CASE SaveFails
  BY <1>0, <1>11, ManifestFacts DEF SaveFails, Types
<1>12. CASE Reload
  BY <1>0, <1>12, ManifestFacts DEF Reload, Loaded, Types
<1>13. CASE Crash
  BY <1>0, <1>13, ManifestFacts DEF Crash, Loaded, Types
<1>14. CASE UNCHANGED vars
  BY <1>14 DEF vars, Types
<1>15. QED
  BY <1>1, <1>2, <1>3, <1>4, <1>5, <1>6, <1>7, <1>8, <1>9, <1>10, <1>11, <1>12, <1>13, <1>14
     DEF Next, Install, RemoveMod

\* The start has no call, and no file listed.
LEMMA OwnedInit == Init => CallIsOf /\ Owned /\ Whole
<1>1. SUFFICES ASSUME Init PROVE CallIsOf /\ Owned /\ Whole
  OBVIOUS
<1>2. call.phase = "none" /\ call.written \cup call.prev = {}
      /\ \A m \in Mod : mem[m].files = {} /\ saved[m].files = {}
  BY <1>1, ManifestFacts DEF Init
<1>3. QED
  BY <1>2 DEF CallIsOf, Installing, Owned, Whole

\* Every step keeps the call's bookkeeping.
LEMMA CallIsOfKept ==
  ASSUME Types, CallIsOf, [Next]_vars
  PROVE  CallIsOf'
<1>0. /\ call \in Call /\ call.next \in Nat \ {0}
      /\ \A m \in Mod : m \in DOMAIN mem
      /\ \A r \in Release : Ships[r] \in Seq(Shipped(r)) /\ Len(Ships[r]) \in Nat
  BY DEF Types, Call, Manifest
<1>1. ASSUME NEW r \in Release, InstallBegin(r) PROVE CallIsOf'
  <2>1. /\ call'.phase = "place" /\ call'.mod = r[1] /\ call'.rel = r /\ call'.next = 1
        /\ call'.prev = mem[r[1]].files /\ mem' = mem
    BY <1>1 DEF InstallBegin, NoCall
  <2>2. QED
    BY <1>0, <2>1, ShippedFacts DEF CallIsOf, Installing
<1>2. ASSUME PlaceFile \/ SkipOptional PROVE CallIsOf'
  <2>1. /\ Placing /\ call'.phase = call.phase /\ call'.next = call.next + 1 /\ mem' = mem
        /\ call'.mod = call.mod /\ call'.rel = call.rel /\ call'.prev = call.prev
    BY <1>0, <1>2 DEF PlaceFile, SkipOptional, Call
  <2>2. call.next + 1 <= Len(Ships[call.rel]) + 1 /\ call.phase = "place"
    BY <2>1, FileFacts DEF Placing
  <2>3. QED
    BY <2>1, <2>2 DEF CallIsOf, Installing
<1>3. CASE PlaceFails
  <2>1. /\ call.phase = "place" /\ call'.phase = "rollback" /\ mem' = mem
        /\ call'.mod = call.mod /\ call'.rel = call.rel /\ call'.prev = call.prev
    BY <1>0, <1>3 DEF PlaceFails, Placing, Call
  <2>2. QED
    BY <2>1 DEF CallIsOf, Installing
<1>4. ASSUME call' = NoCall PROVE CallIsOf'
  BY <1>4, ManifestFacts DEF CallIsOf, Installing
<1>5. CASE Prune
  <2>1. /\ call.phase = "place" /\ call'.phase = "record" /\ mem' = mem
        /\ call'.mod = call.mod /\ call'.rel = call.rel /\ call'.prev = call.prev
    BY <1>0, <1>5 DEF Prune, Call
  <2>2. QED
    BY <2>1 DEF CallIsOf, Installing
<1>6. ASSUME Record \/ RemoveFiles PROVE CallIsOf'
  <2>1. call.phase \in {"record", "unlink"} /\ call'.phase = "save" /\ call'.mod = call.mod
    BY <1>0, <1>6 DEF Record, RemoveFiles, Call
  <2>2. call.mod \in Mod
    BY <2>1, ShippedFacts DEF CallIsOf, Installing
  <2>3. QED
    BY <2>1, <2>2 DEF CallIsOf, Installing
<1>7. ASSUME NEW m \in Mod, RemoveBegin(m) PROVE CallIsOf'
  <2>1. /\ call'.phase = "unlink" /\ call'.mod = m /\ call'.rel = Nothing
        /\ mem' = [mem EXCEPT ![m] = None]
    BY <1>7 DEF RemoveBegin, NoCall
  <2>2. mem'[m].files = {}
    BY <1>0, <2>1, ManifestFacts
  <2>3. QED
    BY <2>1, <2>2 DEF CallIsOf, Installing
<1>8. CASE Reload
  <2>1. call.phase = "none" /\ call' = call
    BY <1>8 DEF Reload, Idle
  <2>2. QED
    BY <2>1 DEF CallIsOf, Installing
<1>9. CASE UNCHANGED vars
  BY <1>9 DEF vars, CallIsOf, Installing
<1>10. QED
  BY <1>1, <1>2, <1>3, <1>4, <1>5, <1>6, <1>7, <1>8, <1>9
     DEF Next, Install, RemoveMod, Rollback, Save, SaveFails, Crash

\* No step makes a manifest list another mod's file.
LEMMA OwnedKept ==
  ASSUME Types, CallIsOf, Owned, [Next]_vars
  PROVE  Owned'
<1>0. /\ call \in Call /\ mem \in Manifest
      /\ \A m \in Mod : mem[m].files \subseteq FilesOf(m)
      /\ saved # Nothing => \A m \in Mod : saved[m].files \subseteq FilesOf(m)
      /\ call.mod \in Mod => call.written \cup call.prev \subseteq FilesOf(call.mod)
  BY DEF Types, Owned
<1>1. ASSUME mem' = mem \/ mem' = Loaded, saved' = saved \/ saved' = Nothing \/ saved' = mem,
             call'.mod \in Mod => call'.written \cup call'.prev \subseteq FilesOf(call'.mod)
      PROVE  Owned'
  BY <1>0, <1>1, ManifestFacts DEF Owned, Loaded
<1>2. ASSUME call' = NoCall
      PROVE  call'.mod \in Mod => call'.written \cup call'.prev \subseteq FilesOf(call'.mod)
  BY <1>2, ManifestFacts
<1>3. ASSUME call'.mod = call.mod, call'.prev = call.prev, call'.written = call.written
      PROVE  call'.mod \in Mod => call'.written \cup call'.prev \subseteq FilesOf(call'.mod)
  BY <1>0, <1>3
<1>4. ASSUME NEW r \in Release, InstallBegin(r) PROVE Owned'
  <2>1. call'.mod = r[1] /\ call'.prev = mem[r[1]].files /\ call'.written = {}
        /\ mem' = mem /\ saved' = saved
    BY <1>4 DEF InstallBegin, NoCall
  <2>2. QED
    BY <1>0, <1>1, <2>1, ShippedFacts
<1>5. CASE PlaceFile
  <2>1. call'.mod = call.mod /\ call'.prev = call.prev /\ call'.written = call.written \cup {File}
        /\ mem' = mem /\ saved' = saved /\ Placing
    BY <1>0, <1>5 DEF PlaceFile, Call
  <2>2. File \in FilesOf(call.mod)
    BY <2>1, FileFacts, ShippedFacts
  <2>3. QED
    BY <1>0, <1>1, <2>1, <2>2
<1>6. ASSUME SkipOptional \/ PlaceFails \/ Prune \/ RemoveFiles PROVE Owned'
  <2>1. call'.mod = call.mod /\ call'.prev = call.prev /\ call'.written = call.written
        /\ mem' = mem /\ saved' = saved
    BY <1>0, <1>6 DEF SkipOptional, PlaceFails, Prune, RemoveFiles, Call
  <2>2. QED
    BY <1>1, <1>3, <2>1
<1>7. CASE Record
  <2>1. /\ call'.mod = call.mod /\ call'.prev = call.prev /\ call'.written = call.written
        /\ mem' = [mem EXCEPT ![call.mod] = [rel |-> call.rel, files |-> call.written]]
        /\ saved' = saved /\ call.phase = "record"
    BY <1>0, <1>7 DEF Record, Call
  <2>2. call.mod \in Mod /\ call.written \subseteq FilesOf(call.mod)
    BY <1>0, <2>1, ShippedFacts DEF CallIsOf, Installing
  <2>3. \A m \in Mod : mem'[m].files \subseteq FilesOf(m)
    BY <1>0, <2>1, <2>2 DEF Manifest
  <2>4. QED
    BY <1>0, <1>3, <2>1, <2>3 DEF Owned
<1>8. ASSUME NEW m \in Mod, RemoveBegin(m) PROVE Owned'
  <2>1. /\ call'.mod = m /\ call'.prev = mem[m].files /\ call'.written = {}
        /\ mem' = [mem EXCEPT ![m] = None] /\ saved' = saved
    BY <1>8 DEF RemoveBegin, NoCall
  <2>2. \A n \in Mod : mem'[n].files \subseteq FilesOf(n)
    BY <1>0, <2>1, ManifestFacts DEF Manifest
  <2>3. QED
    BY <1>0, <2>1, <2>2 DEF Owned
<1>9. CASE Reload
  BY <1>1, <1>3, <1>9 DEF Reload
<1>10. CASE UNCHANGED vars
  BY <1>1, <1>3, <1>10 DEF vars
<1>11. ASSUME Rollback \/ Save \/ SaveFails \/ Crash PROVE Owned'
  <2>1. call' = NoCall /\ (mem' = mem \/ mem' = Loaded)
        /\ (saved' = saved \/ saved' = Nothing \/ saved' = mem)
    BY <1>11 DEF Rollback, Save, SaveFails, Crash
  <2>2. QED
    BY <1>1, <1>2, <2>1
<1>12. QED
  BY <1>4, <1>5, <1>6, <1>7, <1>8, <1>9, <1>10, <1>11 DEF Next, Install, RemoveMod

\* Every step keeps what an install has dealt with so far.
LEMMA WholeKept ==
  ASSUME Types, CallIsOf, Whole, [Next]_vars
  PROVE  Whole'
<1>0. /\ call \in Call /\ mem \in Manifest /\ call.next \in Nat \ {0}
      /\ disk \in [Dest -> Release \cup {Nothing, Damaged}]
      /\ call.written \in SUBSET Dest /\ call.prev \in SUBSET Dest
  BY DEF Types, Call
<1>1. ASSUME call'.phase \in {"none", "rollback", "unlink"} PROVE Whole'
  BY <1>1 DEF Whole
<1>2. ASSUME NEW r \in Release, InstallBegin(r) PROVE Whole'
  <2>1. call'.phase = "place" /\ call'.next = 1 /\ call'.written = {}
    BY <1>2 DEF InstallBegin, NoCall
  <2>2. QED
    BY <2>1 DEF Whole
<1>3. CASE PlaceFile
  <2>1. /\ Placing /\ call.phase = "place" /\ call'.phase = "place" /\ call'.rel = call.rel
        /\ call'.next = call.next + 1 /\ call'.written = call.written \cup {File}
        /\ disk' = [disk EXCEPT ![File] = call.rel]
    BY <1>0, <1>3 DEF PlaceFile, Placing, Call
  <2>2. \A d \in call'.written : disk'[d] = call.rel
    BY <1>0, <2>1, FileFacts DEF Whole
  <2>3. \A i \in 1..call.next : i = call.next \/ i \in 1..call.next - 1
    BY <1>0
  <2>4. \A i \in 1..call'.next - 1 : Ships[call'.rel][i] \in call'.written \cup Optional
    BY <1>0, <2>1, <2>3 DEF Whole, File
  <2>5. QED
    BY <2>1, <2>2, <2>4 DEF Whole
<1>4. CASE SkipOptional
  <2>1. /\ Placing /\ call.phase = "place" /\ call'.phase = "place" /\ call'.rel = call.rel
        /\ call'.next = call.next + 1 /\ call'.written = call.written
        /\ disk' = disk /\ Ships[call.rel][call.next] \in Optional
    BY <1>0, <1>4 DEF SkipOptional, Placing, Call, File
  <2>2. \A i \in 1..call.next : i = call.next \/ i \in 1..call.next - 1
    BY <1>0
  <2>3. \A i \in 1..call'.next - 1 : Ships[call'.rel][i] \in call'.written \cup Optional
    BY <1>0, <2>1, <2>2 DEF Whole
  <2>4. QED
    BY <2>1, <2>3 DEF Whole
<1>5. CASE PlaceFails
  BY <1>0, <1>1, <1>5 DEF PlaceFails, Call
<1>6. CASE Prune
  <2>1. /\ call.phase = "place" /\ ~Placing /\ Unlink(Stale) /\ call'.phase = "record"
        /\ call'.rel = call.rel /\ call'.written = call.written
    BY <1>0, <1>6 DEF Prune, Call
  <2>2. call.rel \in Release /\ call.next = Len(Ships[call.rel]) + 1 /\ Ships[call.rel] \in Seq(Shipped(call.rel))
    BY <1>0, <2>1 DEF CallIsOf, Installing, Placing
  <2>3. \A i \in DOMAIN Ships[call.rel] : i \in 1..call.next - 1
    BY <2>2
  <2>4. Shipped(call.rel) \ Optional \subseteq call.written
    BY <2>1, <2>3 DEF Whole, Shipped
  <2>5. Stale \in SUBSET Dest /\ \A d \in call.written : d \in Dest \ Stale
    BY <1>0 DEF Stale
  <2>6. \A d \in call.written : disk'[d] = call.rel
    BY <2>1, <2>5, UnlinkFacts DEF Whole
  <2>7. QED
    BY <2>1, <2>4, <2>6 DEF Whole
<1>7. CASE Record
  <2>1. /\ call.phase = "record" /\ call'.phase = "save" /\ disk' = disk
        /\ call'.rel = call.rel /\ call'.mod = call.mod
        /\ mem' = [mem EXCEPT ![call.mod] = [rel |-> call.rel, files |-> call.written]]
    BY <1>0, <1>7 DEF Record, Call
  <2>2. call.mod \in Mod
    BY <2>1, ShippedFacts DEF CallIsOf, Installing
  <2>3. mem'[call.mod] = [rel |-> call.rel, files |-> call.written]
    BY <1>0, <2>1, <2>2 DEF Manifest
  <2>4. QED
    BY <2>1, <2>3 DEF Whole
<1>8. ASSUME NEW m \in Mod, RemoveBegin(m) PROVE Whole'
  <2>1. call'.phase = "unlink"
    BY <1>8 DEF RemoveBegin, NoCall
  <2>2. QED
    BY <1>1, <2>1
<1>9. CASE RemoveFiles
  <2>1. call.phase = "unlink" /\ call'.phase = "save" /\ call'.rel = call.rel
    BY <1>0, <1>9 DEF RemoveFiles, Call
  <2>2. QED
    BY <2>1 DEF CallIsOf, Whole
<1>10. ASSUME call' = NoCall PROVE Whole'
  BY <1>1, <1>10, ManifestFacts
<1>11. CASE Reload
  BY <1>1, <1>11 DEF Reload, Idle
<1>12. CASE UNCHANGED vars
  BY <1>12 DEF vars, Whole
<1>13. QED
  BY <1>2, <1>3, <1>4, <1>5, <1>6, <1>7, <1>8, <1>9, <1>10, <1>11, <1>12
     DEF Next, Install, RemoveMod, Rollback, Save, SaveFails, Crash

\* The start is exact.
LEMMA ExactInit == Init => Exact
<1>1. SUFFICES ASSUME Init PROVE Exact
  OBVIOUS
<1>2. saved = mem /\ call.phase = "none" /\ (\A d \in Dest : disk[d] = Nothing)
      /\ \A m \in Mod : mem[m].files = {}
  BY <1>1, ManifestFacts DEF Init
<1>3. QED
  BY <1>2 DEF Exact, NoStray, Pruned, Intact

\* A step on which nothing fails keeps the directory exact.
LEMMA ExactKept ==
  ASSUME Types, CallIsOf, Owned, Whole, Exact, [Next]_vars
  PROVE  Exact'
<1>0. /\ call \in Call /\ mem \in Manifest /\ call.next \in Nat \ {0}
      /\ disk \in [Dest -> Release \cup {Nothing, Damaged}]
      /\ call.written \in SUBSET Dest /\ call.prev \in SUBSET Dest
      /\ \A m \in Mod : mem[m].files \in SUBSET Dest
      /\ rough \in BOOLEAN /\ hurt \subseteq Mod
  BY DEF Types, Call, Manifest
<1>1. ASSUME ~rough PROVE /\ call.phase \notin {"save", "unlink"} => saved = mem
                          /\ NoStray /\ Pruned /\ Intact
  BY <1>1 DEF Exact
<1>2. ASSUME NEW r \in Release, InstallBegin(r) PROVE Exact'
  <2>1. /\ call'.phase = "place" /\ call'.written = {} /\ call.phase = "none"
        /\ disk' = disk /\ mem' = mem /\ saved' = saved /\ rough' = rough /\ hurt' = hurt
    BY <1>2 DEF InstallBegin, NoCall, Idle
  <2>2. ASSUME ~rough PROVE NoStray' /\ Pruned' /\ Intact'
    BY <1>1, <2>1, <2>2 DEF NoStray, Unlisted, Installing, Pruned, Intact
  <2>3. QED
    BY <1>1, <2>1, <2>2 DEF Exact
<1>3. CASE PlaceFile
  <2>1. /\ Placing /\ call.phase = "place" /\ call'.phase = "place" /\ call'.mod = call.mod
        /\ call'.written = call.written \cup {File} /\ disk' = [disk EXCEPT ![File] = call.rel]
        /\ mem' = mem /\ saved' = saved /\ rough' = rough /\ hurt' = hurt
    BY <1>0, <1>3 DEF PlaceFile, Placing, Call
  <2>2. /\ File \in FilesOf(call.mod) /\ File \in Dest /\ call.mod \in Mod
        /\ \A d \in Dest \ {File} : disk'[d] = disk[d]
    BY <1>0, <2>1, FileFacts, ShippedFacts
  <2>3. ASSUME ~rough PROVE NoStray'
    BY <1>1, <2>1, <2>2, <2>3 DEF NoStray, Unlisted, Installing
  <2>4. ASSUME ~rough PROVE Intact'
    <3>1. SUFFICES ASSUME NEW m \in Mod \ hurt, NEW d \in mem[m].files
                   PROVE  disk'[d] = mem[m].rel \/ (m = call.mod /\ d \in call'.written)
      BY <2>1 DEF Intact, Installing
    <3>2. CASE d = File
      <4>1. m = call.mod
        BY <1>0, <2>2, <3>2, ShippedFacts DEF Owned
      <4>2. QED
        BY <2>1, <3>2, <4>1
    <3>3. CASE d # File
      BY <1>0, <1>1, <2>1, <2>2, <2>4, <3>3 DEF Intact, Installing
    <3>4. QED
      BY <3>2, <3>3
  <2>5. QED
    BY <1>1, <2>1, <2>3, <2>4 DEF Exact, Pruned
<1>4. CASE SkipOptional
  <2>1. /\ call.phase = "place" /\ call'.phase = "place" /\ call'.mod = call.mod
        /\ call'.written = call.written /\ call'.prev = call.prev
        /\ disk' = disk /\ mem' = mem /\ saved' = saved /\ rough' = rough /\ hurt' = hurt
    BY <1>0, <1>4 DEF SkipOptional, Placing, Call
  <2>2. ASSUME ~rough PROVE NoStray' /\ Pruned' /\ Intact'
    BY <1>1, <2>1, <2>2 DEF NoStray, Unlisted, Installing, Pruned, Intact
  <2>3. QED
    BY <1>1, <2>1, <2>2 DEF Exact
<1>5. CASE PlaceFails
  <2>1. /\ call.phase = "place" /\ call'.phase = "rollback" /\ call'.mod = call.mod
        /\ call'.written = call.written /\ call'.prev = call.prev
        /\ mem' = mem /\ saved' = saved /\ hurt' = hurt
        /\ rough' = TRUE \/ (disk' = disk /\ rough' = rough)
    BY <1>0, <1>5 DEF PlaceFails, Placing, Call
  <2>2. ASSUME ~rough, disk' = disk PROVE NoStray' /\ Pruned' /\ Intact'
    BY <1>1, <2>1, <2>2 DEF NoStray, Unlisted, Installing, Pruned, Intact
  <2>3. QED
    BY <1>1, <2>1, <2>2 DEF Exact
<1>6. CASE Rollback
  <2>1. /\ call.phase = "rollback" /\ Unlink(call.written) /\ mem' = mem /\ saved' = saved
        /\ hurt' = IF call.written \cap call.prev = {} THEN hurt ELSE hurt \cup {call.mod}
        /\ call'.phase = "none"
    BY <1>6, ManifestFacts DEF Rollback
  <2>2. SUFFICES ASSUME ~rough' PROVE saved = mem /\ NoStray' /\ Intact'
    BY <2>1 DEF Exact, Pruned
  <2>3. /\ ~rough /\ \A d \in call.written : disk'[d] = Nothing
        /\ \A d \in Dest \ call.written : disk'[d] = disk[d]
    BY <1>0, <2>1, <2>2, UnlinkFacts
  <2>4. saved = mem
    BY <1>1, <2>1, <2>3
  <2>5. NoStray'
    BY <1>1, <2>1, <2>3 DEF NoStray, Unlisted, Installing
  <2>6. ASSUME NEW m \in Mod \ hurt', NEW d \in mem[m].files
        PROVE  disk'[d] = mem[m].rel
    <3>1. d \in Dest /\ m \notin hurt
      BY <1>0, <2>1, <2>6
    <3>2. d \notin call.written
      <4>1. ASSUME d \in call.written PROVE m = call.mod
        BY <1>0, <2>1, <3>1, <4>1, ShippedFacts DEF Owned, CallIsOf, Installing
      <4>2. ASSUME d \in call.written PROVE d \in call.prev
        BY <2>1, <2>6, <4>1, <4>2 DEF CallIsOf, Installing
      <4>3. QED
        BY <2>1, <2>6, <4>1, <4>2
    <3>3. QED
      BY <1>1, <2>1, <2>3, <2>6, <3>1, <3>2 DEF Intact
  <2>7. QED
    BY <2>1, <2>4, <2>5, <2>6 DEF Intact
<1>7. CASE Prune
  <2>1. /\ call.phase = "place" /\ Unlink(Stale) /\ call'.phase = "record"
        /\ call'.mod = call.mod /\ call'.written = call.written /\ call'.prev = call.prev
        /\ mem' = mem /\ saved' = saved /\ hurt' = hurt
    BY <1>0, <1>7 DEF Prune, Call
  <2>2. SUFFICES ASSUME ~rough' PROVE saved = mem /\ NoStray' /\ Pruned' /\ Intact'
    BY <2>1 DEF Exact
  <2>3. Stale \in SUBSET Dest /\ Stale = call.prev \ call.written
    BY <1>0 DEF Stale
  <2>4. /\ ~rough /\ \A d \in Stale : disk'[d] = Nothing
        /\ \A d \in Dest \ Stale : disk'[d] = disk[d]
    BY <2>1, <2>2, <2>3, UnlinkFacts
  <2>5. saved = mem
    BY <1>1, <2>1, <2>4
  <2>6. NoStray' /\ Pruned'
    BY <1>1, <2>1, <2>3, <2>4 DEF NoStray, Unlisted, Installing, Pruned
  <2>7. ASSUME NEW m \in Mod \ hurt, NEW d \in mem[m].files, m # call.mod
        PROVE  disk'[d] = mem[m].rel
    <3>1. call.mod \in Mod /\ d \in Dest /\ d \in FilesOf(m)
      BY <1>0, <2>1, <2>7, ShippedFacts DEF CallIsOf, Installing, Owned
    <3>2. d \notin call.prev
      BY <2>7, <3>1, ShippedFacts DEF Owned
    <3>3. QED
      BY <1>1, <2>3, <2>4, <2>7, <3>1, <3>2 DEF Intact
  <2>8. Intact'
    BY <2>1, <2>7 DEF Intact, Installing
  <2>9. QED
    BY <2>5, <2>6, <2>8
<1>8. CASE Record
  <2>1. /\ call.phase = "record" /\ call'.phase = "save" /\ disk' = disk /\ saved' = saved
        /\ mem' = [mem EXCEPT ![call.mod] = [rel |-> call.rel, files |-> call.written]]
        /\ rough' = rough /\ hurt' = hurt \ {call.mod}
    BY <1>0, <1>8 DEF Record, Call
  <2>2. SUFFICES ASSUME ~rough PROVE NoStray' /\ Intact'
    BY <2>1 DEF Exact, Pruned
  <2>3. call.mod \in Mod /\ call.prev = mem[call.mod].files
    BY <2>1, ShippedFacts DEF CallIsOf, Installing
  <2>4. /\ mem'[call.mod].rel = call.rel /\ mem'[call.mod].files = call.written
        /\ \A m \in Mod : m # call.mod => mem'[m] = mem[m]
    BY <1>0, <2>1, <2>3 DEF Manifest
  <2>5. ASSUME NEW d \in Dest, disk[d] # Nothing PROVE \E m \in Mod : d \in mem'[m].files
    <3>1. d \in call.written \/ \E m \in Mod : d \in mem[m].files
      BY <1>1, <2>1, <2>2, <2>5 DEF NoStray, Unlisted, Installing
    <3>2. CASE d \in call.written
      BY <2>3, <2>4, <3>2
    <3>3. ASSUME d \notin call.written, NEW m \in Mod, d \in mem[m].files
          PROVE  m # call.mod
      BY <1>1, <2>1, <2>2, <2>3, <2>5, <3>3 DEF Pruned
    <3>4. QED
      BY <2>4, <3>1, <3>2, <3>3
  <2>6. NoStray'
    BY <2>1, <2>5 DEF NoStray
  <2>7. ASSUME NEW m \in Mod \ hurt', NEW d \in mem'[m].files
        PROVE  disk[d] = mem'[m].rel
    <3>1. CASE m = call.mod
      BY <2>1, <2>4, <2>7, <3>1 DEF Whole
    <3>2. CASE m # call.mod
      BY <1>1, <2>1, <2>2, <2>4, <2>7, <3>2 DEF Intact
    <3>3. QED
      BY <3>1, <3>2
  <2>8. QED
    BY <2>1, <2>6, <2>7 DEF Intact
<1>9. ASSUME NEW m \in Mod, RemoveBegin(m) PROVE Exact'
  <2>1. /\ call.phase = "none" /\ call'.phase = "unlink" /\ call'.prev = mem[m].files
        /\ disk' = disk /\ saved' = saved /\ rough' = rough /\ hurt' = hurt
        /\ mem' = [mem EXCEPT ![m] = None]
    BY <1>9 DEF RemoveBegin, NoCall, Idle
  <2>2. mem'[m].files = {} /\ \A n \in Mod : n # m => mem'[n] = mem[n]
    BY <1>0, <2>1, ManifestFacts DEF Manifest
  <2>3. ASSUME ~rough PROVE NoStray' /\ Intact'
    <3>1. NoStray'
      BY <1>1, <2>1, <2>2, <2>3 DEF NoStray, Unlisted, Installing
    <3>2. Intact'
      BY <1>1, <2>1, <2>2, <2>3 DEF Intact, Installing
    <3>3. QED
      BY <3>1, <3>2
  <2>4. QED
    BY <2>1, <2>3 DEF Exact, Pruned
<1>10. CASE RemoveFiles
  <2>1. /\ call.phase = "unlink" /\ Unlink(call.prev) /\ call'.phase = "save"
        /\ mem' = mem /\ saved' = saved /\ hurt' = hurt \ {call.mod}
    BY <1>0, <1>10 DEF RemoveFiles, Call
  <2>2. SUFFICES ASSUME ~rough' PROVE NoStray' /\ Intact'
    BY <2>1 DEF Exact, Pruned
  <2>3. /\ ~rough /\ \A d \in call.prev : disk'[d] = Nothing
        /\ \A d \in Dest \ call.prev : disk'[d] = disk[d]
    BY <1>0, <2>1, <2>2, UnlinkFacts
  <2>4. NoStray'
    BY <1>1, <2>1, <2>3 DEF NoStray, Unlisted, Installing
  <2>5. call.mod \in Mod /\ call.prev \subseteq FilesOf(call.mod)
    BY <2>1 DEF CallIsOf, Owned
  <2>6. ASSUME NEW m \in Mod \ hurt', NEW d \in mem[m].files
        PROVE  disk'[d] = mem[m].rel
    <3>1. CASE m = call.mod
      BY <2>1, <2>6, <3>1 DEF CallIsOf
    <3>2. CASE m # call.mod
      <4>1. d \in Dest /\ d \notin call.prev
        BY <1>0, <2>5, <2>6, <3>2, ShippedFacts DEF Owned
      <4>2. QED
        BY <1>1, <2>1, <2>3, <2>6, <3>2, <4>1 DEF Intact, Installing
    <3>3. QED
      BY <3>1, <3>2
  <2>7. QED
    BY <2>1, <2>4, <2>6 DEF Intact
<1>11. CASE Save
  <2>1. /\ call.phase = "save" /\ call'.phase = "none" /\ saved' = mem
        /\ disk' = disk /\ mem' = mem /\ rough' = rough /\ hurt' = hurt
    BY <1>11, ManifestFacts DEF Save
  <2>2. ASSUME ~rough PROVE NoStray' /\ Intact'
    BY <1>1, <2>1, <2>2 DEF NoStray, Unlisted, Installing, Intact
  <2>3. QED
    BY <2>1, <2>2 DEF Exact, Pruned
<1>12. ASSUME rough' = TRUE PROVE Exact'
  BY <1>12 DEF Exact
<1>13. CASE Reload
  <2>1. /\ call.phase = "none" /\ call' = call /\ mem' = Loaded /\ mem # Loaded
        /\ rough' = rough
    BY <1>13 DEF Reload, Idle
  <2>2. ASSUME ~rough PROVE FALSE
    <3>1. saved = mem
      BY <1>1, <2>1, <2>2
    <3>2. QED
      BY <1>0, <2>1, <3>1 DEF Loaded
  <2>3. QED
    BY <1>0, <1>12, <2>1, <2>2
<1>14. CASE UNCHANGED vars
  BY <1>14 DEF vars, Exact, NoStray, Unlisted, Installing, Pruned, Intact
<1>15. QED
  BY <1>2, <1>3, <1>4, <1>5, <1>6, <1>7, <1>8, <1>9, <1>10, <1>11, <1>12, <1>13, <1>14
     DEF Next, Install, RemoveMod, SaveFails, Crash

\* The inductive invariant: types, what the call in progress works on, no file
\* listed for two mods, a finished install whole, and the directory exact as
\* long as nothing failed.
THEOREM Invariant == Spec => []IInv
<1>1. Init => IInv
  BY TypesInit, OwnedInit, ExactInit DEF IInv
<1>2. IInv /\ [Next]_vars => IInv'
  BY TypesKept, CallIsOfKept, OwnedKept, WholeKept, ExactKept DEF IInv
<1>3. QED
  BY <1>1, <1>2, PTL DEF Spec

\* The type invariant.
THEOREM TypeCorrect == Spec => []TypeOK
<1>1. IInv => TypeOK
  BY DEF IInv, Types, Call, TypeOK
<1>2. QED
  BY <1>1, Invariant, PTL

\* As long as the disk works and the launcher is not killed, the manifest lists
\* exactly the mod files in the game directory, with what they hold, for any
\* mods and releases and after any calls, whatever downloads fail.
THEOREM ManifestIsExact == Spec => []ManifestExact
<1>1. IInv => ManifestExact
  <2>1. SUFFICES ASSUME IInv, Idle, ~rough
                 PROVE  /\ saved = mem
                        /\ \A d \in Dest : disk[d] # Nothing => \E m \in Mod : d \in mem[m].files
                        /\ \A m \in Mod \ hurt : \A d \in mem[m].files : disk[d] = mem[m].rel
    BY DEF ManifestExact
  <2>2. call.phase = "none" /\ saved = mem /\ NoStray /\ Intact
    BY <2>1 DEF IInv, Exact, Idle
  <2>3. QED
    BY <2>2 DEF NoStray, Unlisted, Installing, Intact
<1>2. QED
  BY <1>1, Invariant, PTL

\* Whatever failed or crashed before, an install whose manifest reaches the
\* disk has every required file in place and recorded.
THEOREM InstallIsWhole == Spec => InstalledIsWhole
<1>1. IInv /\ [Next]_vars =>
        [call.phase = "save" /\ call.rel # Nothing /\ Idle' /\ saved' = mem =>
          /\ saved'[call.mod].rel = call.rel
          /\ Shipped(call.rel) \ Optional \subseteq saved'[call.mod].files
          /\ \A d \in saved'[call.mod].files : disk'[d] = call.rel]_vars
  <2>1. SUFFICES ASSUME IInv, Next, call.phase = "save", call.rel # Nothing, Idle', saved' = mem
                 PROVE  /\ saved'[call.mod].rel = call.rel
                        /\ Shipped(call.rel) \ Optional \subseteq saved'[call.mod].files
                        /\ \A d \in saved'[call.mod].files : disk'[d] = call.rel
    OBVIOUS
  <2>2. disk' = disk
    BY <2>1 DEF Next, Install, RemoveMod, InstallBegin, PlaceFile, SkipOptional, PlaceFails,
                Placing, Rollback, Prune, Record, RemoveBegin, RemoveFiles, Save, SaveFails,
                Reload, Crash, Idle
  <2>3. QED
    BY <2>1, <2>2 DEF IInv, Whole
<1>2. QED
  BY <1>1, Invariant, PTL DEF Spec, InstalledIsWhole

(***************************************************************************)
(* The settings: what the rows of a store say.                             *)
(***************************************************************************)
\* A set of numbers that is not empty has a least member.
LEMMA HasLeast ==
  ASSUME NEW S \in SUBSET Nat, S # {}
  PROVE  \E x \in S : \A y \in S : x <= y
<1> DEFINE R == OpToRel(<, Nat)
<1>1. PICK x \in S : \A y \in S : <<y, x>> \notin R
  <2>1. IsWellFoundedOn(R, Nat)
    BY NatLessThanWellFounded
  <2> HIDE DEF R
  <2>2. QED
    BY <2>1, WFMin
<1>2. \A y \in S : x <= y
  <2> SUFFICES ASSUME NEW y \in S, y < x PROVE FALSE
    OBVIOUS
  <2>1. <<y, x>> \in R
    BY Zenon DEF OpToRel
  <2>2. QED
    BY <1>1, <2>1
<1>3. QED
  BY <1>2

\* The n-th member of a finite set of numbers: there is one for every n.
LEMMA Ranks ==
  ASSUME NEW K \in SUBSET Nat, IsFiniteSet(K)
  PROVE  /\ \A i \in K : Cardinality({j \in K : j <= i}) \in 1..Cardinality(K)
         /\ \A h, i \in K : h < i => Cardinality({j \in K : j <= h}) < Cardinality({j \in K : j <= i})
         /\ \A n \in 1..Cardinality(K) : \E i \in K : Cardinality({j \in K : j <= i}) = n
<1> DEFINE Upto(i) == {j \in K : j <= i}
           rank == [i \in K |-> Cardinality(Upto(i))]
<1>1. Cardinality(K) \in Nat
  BY FS_CardinalityType
<1>2. ASSUME NEW i \in K
      PROVE  /\ IsFiniteSet(Upto(i))
             /\ Cardinality(Upto(i)) \in 1..Cardinality(K)
  <2>1. Upto(i) \in SUBSET K /\ i \in Upto(i)
    OBVIOUS
  <2> HIDE DEF Upto
  <2>2. IsFiniteSet(Upto(i)) /\ Cardinality(Upto(i)) <= Cardinality(K)
    BY <2>1, FS_Subset
  <2>3. Cardinality(Upto(i)) \in Nat /\ Cardinality(Upto(i)) # 0
    BY <2>1, <2>2, FS_CardinalityType, FS_EmptySet
  <2>4. QED
    BY <1>1, <2>2, <2>3
<1>3. ASSUME NEW h \in K, NEW i \in K, h < i
      PROVE  Cardinality(Upto(h)) < Cardinality(Upto(i))
  <2>1. Upto(h) \in SUBSET Upto(i)
    <3>1. \A j \in K : j <= h => j <= i
      BY <1>3
    <3>2. QED
      BY <3>1
  <2>2. i \in Upto(i) /\ i \notin Upto(h)
    BY <1>3
  <2> HIDE DEF Upto
  <2>3. /\ Cardinality(Upto(h)) <= Cardinality(Upto(i))
        /\ Cardinality(Upto(h)) # Cardinality(Upto(i))
    BY <1>2, <2>1, <2>2, FS_Subset
  <2>4. QED
    BY <1>1, <1>2, <2>3
<1>4. rank \in Surjection(K, 1..Cardinality(K))
  <2>1. rank \in [K -> 1..Cardinality(K)]
    BY <1>2
  <2>2. \A h, i \in K : h < i => rank[h] < rank[i]
    BY <1>3
  <2> HIDE DEF rank, Upto
  <2>3. \A h, i \in K : h # i => rank[h] # rank[i]
    <3> SUFFICES ASSUME NEW h \in K, NEW i \in K, h # i PROVE rank[h] # rank[i]
      OBVIOUS
    <3>1. h \in Nat /\ i \in Nat /\ rank[h] \in Nat /\ rank[i] \in Nat
      BY <1>1, <2>1
    <3>2. h < i \/ i < h
      BY <3>1
    <3>3. rank[h] < rank[i] \/ rank[i] < rank[h]
      BY <2>2, <3>2
    <3>4. QED
      BY <3>1, <3>3
  <2>4. rank \in Injection(K, 1..Cardinality(K))
    BY <2>1, <2>3 DEF Injection, IsInjective
  <2>5. IsFiniteSet(1..Cardinality(K)) /\ Cardinality(1..Cardinality(K)) = Cardinality(K)
    BY <1>1, FS_Interval
  <2>6. QED
    BY <2>4, <2>5, FS_Injection
<1>5. \A n \in 1..Cardinality(K) : \E i \in K : Cardinality(Upto(i)) = n
  <2>1. \A n \in 1..Cardinality(K) : \E i \in K : rank[i] = n
    BY <1>4 DEF Surjection
  <2>2. QED
    BY <2>1
<1>6. QED
  BY <1>2, <1>3, <1>5

\* Lookup finds the first row of a key,
LEMMA FirstRow ==
  ASSUME NEW rows \in Seq(Row), NEW k \in Keys, NEW i \in DOMAIN rows,
         rows[i].key = k, \A j \in 1..i-1 : rows[j].key # k
  PROVE  Lookup(rows, k) = rows[i] /\ Lookup(rows, k) # Unset
<1>0. DOMAIN rows = 1..Len(rows) /\ Len(rows) \in Nat
  OBVIOUS
<1> DEFINE found == {j \in DOMAIN rows : rows[j].key = k}
<1>1. i \in found /\ \A j \in found : i <= j
  BY <1>0
<1>2. \A h \in found : (\A j \in found : h <= j) => h = i
  BY <1>0, <1>1
<1>3. (CHOOSE h \in found : \A j \in found : h <= j) = i
  <2> HIDE DEF found
  <2> QED BY <1>1, <1>2
<1>4. Lookup(rows, k) = rows[i]
  BY <1>1, <1>3 DEF Lookup
<1>5. rows[i] # Unset
  BY ModConfigAssumption DEF Unset
<1>6. QED
  BY <1>4, <1>5

\* and there is a first one if there is any.
LEMMA HasFirstRow ==
  ASSUME NEW rows \in Seq(Row), NEW k \in Keys, NEW h \in DOMAIN rows, rows[h].key = k
  PROVE  \E i \in DOMAIN rows : rows[i].key = k /\ \A j \in 1..i-1 : rows[j].key # k
<1>0. DOMAIN rows = 1..Len(rows) /\ Len(rows) \in Nat
  OBVIOUS
<1> DEFINE found == {j \in DOMAIN rows : rows[j].key = k}
<1>1. found \in SUBSET Nat /\ found # {}
  BY <1>0
<1>2. PICK i \in found : \A j \in found : i <= j
  <2> HIDE DEF found
  <2> QED BY <1>1, HasLeast
<1>3. i \in DOMAIN rows /\ rows[i].key = k
  OBVIOUS
<1>4. \A j \in 1..i-1 : rows[j].key # k
  <2> SUFFICES ASSUME NEW j \in 1..i-1, rows[j].key = k PROVE FALSE
    OBVIOUS
  <2>1. j \in DOMAIN rows /\ j < i /\ j \in Nat /\ i \in Nat
    BY <1>0, <1>3
  <2>2. i <= j
    BY <1>2, <2>1
  <2>3. QED
    BY <2>1, <2>2
<1>5. QED
  BY <1>3, <1>4

LEMMA NoRow ==
  ASSUME NEW rows \in Seq(Row), NEW k \in Keys, \A i \in DOMAIN rows : rows[i].key # k
  PROVE  Lookup(rows, k) = Unset
BY DEF Lookup

\* A key is either nowhere, or has a first row, which Lookup finds.
LEMMA Found ==
  ASSUME NEW rows \in Seq(Row), NEW k \in Keys
  PROVE  \/ /\ Lookup(rows, k) = Unset
            /\ \A i \in DOMAIN rows : rows[i].key # k
         \/ \E i \in DOMAIN rows : /\ rows[i].key = k
                                   /\ \A j \in 1..i-1 : rows[j].key # k
                                   /\ Lookup(rows, k) = rows[i]
                                   /\ Lookup(rows, k) # Unset
<1>1. CASE \A i \in DOMAIN rows : rows[i].key # k
  BY <1>1, NoRow
<1>2. CASE \E i \in DOMAIN rows : rows[i].key = k
  <2>1. PICK i \in DOMAIN rows : rows[i].key = k /\ \A j \in 1..i-1 : rows[j].key # k
    BY <1>2, HasFirstRow
  <2>2. Lookup(rows, k) = rows[i] /\ Lookup(rows, k) # Unset
    BY <2>1, FirstRow
  <2>3. QED
    BY <2>1, <2>2
<1>3. QED
  BY <1>1, <1>2

\* config_mod_set and KvFile::set change what the store says of one key, and of no other.
LEMMA LookupUpdated ==
  ASSUME NEW rows \in Seq(Row), NEW k \in Keys, NEW v \in Int \cup {Junk}
  PROVE  /\ Updated(rows, k, v) \in Seq(Row)
         /\ \A q \in Keys : Lookup(Updated(rows, k, v), q) =
                              IF q = k THEN [key |-> k, val |-> v] ELSE Lookup(rows, q)
<1> DEFINE new == Updated(rows, k, v)
           row == [key |-> k, val |-> v]
<1>0. row \in Row /\ row.key = k /\ DOMAIN rows = 1..Len(rows) /\ Len(rows) \in Nat
  BY DEF Row
<1>1. CASE /\ Lookup(rows, k) = Unset
           /\ \A i \in DOMAIN rows : rows[i].key # k
  <2>1. new = Append(rows, row)
    BY <1>1 DEF Updated
  <2>2. /\ new \in Seq(Row) /\ DOMAIN new = 1..Len(rows) + 1
        /\ new[Len(rows) + 1] = row
        /\ \A i \in 1..Len(rows) : new[i] = rows[i]
    <3> HIDE DEF row
    <3> QED BY <1>0, <2>1
  <2> HIDE DEF new, row
  <2>3. Lookup(new, k) = row
    <3>1. Len(rows) + 1 \in DOMAIN new /\ \A j \in 1..(Len(rows) + 1) - 1 : new[j].key # k
      BY <1>0, <1>1, <2>2
    <3>2. QED
      BY <3>1, <2>2, <1>0, FirstRow
  <2>4. ASSUME NEW q \in Keys, q # k PROVE Lookup(new, q) = Lookup(rows, q)
    <3>1. CASE \A i \in DOMAIN rows : rows[i].key # q
      <4>1. \A i \in DOMAIN new : new[i].key # q
        BY <1>0, <2>2, <2>4, <3>1
      <4>2. QED
        BY <4>1, <3>1, <2>2, NoRow
    <3>2. CASE \E i \in DOMAIN rows : rows[i].key = q
      <4>1. PICK i \in DOMAIN rows : rows[i].key = q /\ \A j \in 1..i-1 : rows[j].key # q
        BY <3>2, HasFirstRow
      <4>2. i \in DOMAIN new /\ new[i] = rows[i] /\ \A j \in 1..i-1 : new[j].key # q
        BY <1>0, <2>2, <4>1
      <4>3. Lookup(rows, q) = rows[i]
        BY <4>1, FirstRow
      <4>4. Lookup(new, q) = new[i]
        BY <4>1, <4>2, <2>2, FirstRow
      <4>5. QED
        BY <4>2, <4>3, <4>4
    <3>3. QED
      BY <3>1, <3>2
  <2>5. QED
    BY <2>2, <2>3, <2>4 DEF new, row
<1>2. ASSUME NEW i \in DOMAIN rows,
             rows[i].key = k /\ \A j \in 1..i-1 : rows[j].key # k, Lookup(rows, k) # Unset
      PROVE  new \in Seq(Row) /\ \A q \in Keys : Lookup(new, q) = IF q = k THEN row ELSE Lookup(rows, q)
  <2>1. (CHOOSE h \in DOMAIN rows : /\ rows[h].key = k
                                    /\ \A j \in 1..h-1 : rows[j].key # k) = i
    <3>1. \A h \in DOMAIN rows : rows[h].key = k /\ (\A j \in 1..h-1 : rows[j].key # k) => h = i
      BY <1>0, <1>2
    <3>2. QED
      BY <1>2, <3>1
  <2>2. new = [rows EXCEPT ![i].val = v]
    BY <1>2, <2>1 DEF Updated
  <2>3. rows[i] \in Row
    OBVIOUS
  <2>4. /\ new \in Seq(Row) /\ DOMAIN new = DOMAIN rows
        /\ new[i] = row
        /\ \A j \in DOMAIN rows : j # i => new[j] = rows[j]
    <3>1. [rows[i] EXCEPT !.val = v] = row
      BY <2>3, <1>2 DEF Row
    <3>2. new = [rows EXCEPT ![i] = row]
      BY <2>2, <3>1
    <3>3. QED
      <4> HIDE DEF new, row
      <4> QED BY <3>2, <1>0
  <2>5. \A j \in DOMAIN rows : new[j].key = rows[j].key
    BY <2>4, <1>0, <1>2
  <2> HIDE DEF new, row
  <2>6. Lookup(new, k) = row
    <3>1. i \in DOMAIN new /\ new[i].key = k /\ \A j \in 1..i-1 : new[j].key # k
      BY <1>0, <1>2, <2>4, <2>5
    <3>2. QED
      BY <3>1, <2>4, FirstRow
  <2>7. ASSUME NEW q \in Keys, q # k PROVE Lookup(new, q) = Lookup(rows, q)
    <3>1. CASE \A h \in DOMAIN rows : rows[h].key # q
      <4>1. \A h \in DOMAIN new : new[h].key # q
        BY <2>4, <2>5, <3>1
      <4>2. QED
        BY <4>1, <3>1, <2>4, NoRow
    <3>2. CASE \E h \in DOMAIN rows : rows[h].key = q
      <4>1. PICK h \in DOMAIN rows : rows[h].key = q /\ \A j \in 1..h-1 : rows[j].key # q
        BY <3>2, HasFirstRow
      <4>2. h \in DOMAIN new /\ h # i /\ new[h] = rows[h]
        BY <2>4, <2>7, <4>1, <1>2
      <4>3. \A j \in 1..h-1 : new[j].key # q
        BY <1>0, <2>5, <4>1
      <4>4. Lookup(rows, q) = rows[h]
        BY <4>1, FirstRow
      <4>5. Lookup(new, q) = new[h]
        BY <4>1, <4>2, <4>3, <2>4, FirstRow
      <4>6. QED
        BY <4>2, <4>4, <4>5
    <3>3. QED
      BY <3>1, <3>2
  <2>8. QED
    BY <2>4, <2>6, <2>7
<1>3. QED
  BY <1>1, <1>2, Found

\* remove_prefix leaves what the store says of the other mods' keys, and nothing of this mod's.
LEMMA LookupWithoutMod ==
  ASSUME NEW rows \in Seq(Row), NEW m \in Mods
  PROVE  /\ WithoutMod(rows, m) \in Seq(Row)
         /\ \A q \in Keys : Lookup(WithoutMod(rows, m), q) =
                              IF ModOf[q] = m THEN Unset ELSE Lookup(rows, q)
<1> DEFINE kept == {i \in DOMAIN rows : ModOf[rows[i].key] # m}
           rank(i) == Cardinality({j \in kept : j <= i})
           nth(n) == CHOOSE i \in kept : rank(i) = n
           N == Cardinality(kept)
           new == WithoutMod(rows, m)
<1>0. /\ DOMAIN rows = 1..Len(rows) /\ Len(rows) \in Nat
      /\ kept \in SUBSET Nat /\ IsFiniteSet(kept) /\ N \in Nat
  <2>1. DOMAIN rows = 1..Len(rows) /\ Len(rows) \in Nat
    OBVIOUS
  <2>2. kept \in SUBSET Nat /\ kept \in SUBSET (1..Len(rows))
    BY <2>1
  <2> HIDE DEF kept
  <2>3. IsFiniteSet(1..Len(rows))
    BY <2>1, FS_Interval
  <2>4. IsFiniteSet(kept)
    BY <2>2, <2>3, FS_Subset
  <2>5. QED
    BY <2>1, <2>2, <2>4, FS_CardinalityType
<1>1. /\ \A i \in kept : rank(i) \in 1..N
      /\ \A h, i \in kept : h < i => rank(h) < rank(i)
      /\ \A n \in 1..N : \E i \in kept : rank(i) = n
  <2> HIDE DEF kept
  <2> QED BY <1>0, Ranks
<1>2. new = [n \in 1..N |-> rows[nth(n)]]
  BY Zenon DEF WithoutMod
<1>3. \A i \in kept : i \in DOMAIN rows /\ i \in Nat /\ rows[i] \in Row /\ ModOf[rows[i].key] # m
  BY <1>0
<1>4. \A i \in DOMAIN rows : ModOf[rows[i].key] # m => i \in kept
  OBVIOUS
<1> HIDE DEF kept, rank, N, new
<1>5. \A n \in 1..N : nth(n) \in kept /\ rank(nth(n)) = n
  BY <1>1
<1>6. \A i \in kept : nth(rank(i)) = i
  <2> SUFFICES ASSUME NEW i \in kept PROVE nth(rank(i)) = i
    OBVIOUS
  <2>1. rank(i) \in 1..N
    BY <1>1
  <2> DEFINE h == nth(rank(i))
  <2>2. h \in kept /\ rank(h) = rank(i)
    BY <1>5, <2>1
  <2>3. h \in Nat /\ i \in Nat
    BY <1>0, <2>2
  <2>4. rank(h) \in Nat /\ rank(i) \in Nat
    BY <2>1, <2>2, <1>0
  <2> HIDE DEF h
  <2>5. ~(h < i) /\ ~(i < h)
    BY <1>1, <2>2, <2>4
  <2>6. QED
    BY <2>3, <2>5 DEF h
<1> HIDE DEF nth
<1>7. new \in Seq(Row) /\ DOMAIN new = 1..N /\ \A n \in 1..N : new[n] = rows[nth(n)]
  <2>1. \A n \in 1..N : rows[nth(n)] \in Row
    BY <1>3, <1>5
  <2>2. QED
    BY <1>0, <1>2, <2>1
<1>8. ASSUME NEW q \in Keys, ModOf[q] = m PROVE Lookup(new, q) = Unset
  <2>1. \A n \in DOMAIN new : new[n].key # q
    BY <1>3, <1>5, <1>7, <1>8
  <2>2. QED
    BY <2>1, <1>7, NoRow
<1>9. ASSUME NEW q \in Keys, ModOf[q] # m PROVE Lookup(new, q) = Lookup(rows, q)
  <2>1. CASE \A i \in DOMAIN rows : rows[i].key # q
    <3>1. \A n \in DOMAIN new : new[n].key # q
      BY <1>3, <1>5, <1>7, <2>1
    <3>2. QED
      BY <2>1, <3>1, <1>7, NoRow
  <2>2. CASE \E i \in DOMAIN rows : rows[i].key = q
    <3>1. PICK i \in DOMAIN rows : rows[i].key = q /\ \A j \in 1..i-1 : rows[j].key # q
      BY <2>2, HasFirstRow
    <3>2. i \in kept /\ rank(i) \in 1..N
      BY <1>1, <1>4, <1>9, <3>1
    <3>3. rank(i) \in DOMAIN new /\ new[rank(i)] = rows[i]
      BY <1>6, <1>7, <3>2
    <3>4. ASSUME NEW n \in 1..rank(i)-1 PROVE new[n].key # q
      <4>1. n \in 1..N /\ n < rank(i)
        BY <3>2, <1>0
      <4>2. nth(n) \in kept /\ rank(nth(n)) = n
        BY <1>5, <4>1
      <4>3. nth(n) < i
        <5>1. nth(n) \in Nat /\ i \in Nat /\ rank(i) \in Nat /\ n \in Nat
          BY <1>3, <3>2, <4>1, <4>2
        <5>2. ~(i < nth(n))
          BY <1>1, <3>2, <4>1, <4>2, <5>1
        <5>3. nth(n) # i
          BY <4>1, <4>2, <5>1
        <5>4. QED
          BY <5>1, <5>2, <5>3
      <4>4. nth(n) \in 1..i-1
        <5>1. nth(n) \in 1..Len(rows) /\ i \in 1..Len(rows)
          BY <1>0, <1>3, <3>2, <4>2
        <5>2. QED
          BY <1>0, <4>3, <5>1
      <4>5. QED
        BY <3>1, <4>4, <1>7, <4>1
    <3>5. Lookup(rows, q) = rows[i]
      BY <3>1, FirstRow
    <3>6. Lookup(new, q) = new[rank(i)]
      BY <3>1, <3>3, <3>4, <1>7, FirstRow
    <3>7. QED
      BY <3>3, <3>5, <3>6
  <2>3. QED
    BY <2>1, <2>2
<1>10. QED
  BY <1>7, <1>8, <1>9 DEF new

\* What an editor writes is what it will read.
LEMMA ClampReads ==
  ASSUME NEW k \in Keys, NEW v \in Inputs[k]
  PROVE  Clamp(Schema[k], v) \in Int /\ Coerce(Schema[k], Clamp(Schema[k], v)) = Clamp(Schema[k], v)
<1>1. Schema[k].int \in BOOLEAN /\ {Schema[k].min, Schema[k].max, v} \subseteq Int
  BY ModConfigAssumption
<1>2. Clamp(Schema[k], v) # Junk
  BY NumbersAssumption
<1>3. PICK w \in Int : Clamp(Schema[k], v) = Integral(Schema[k], w)
  BY <1>1 DEF Clamp
<1>4. CASE Schema[k].int
  <2>1. Clamp(Schema[k], v) = w - (w % 2)
    BY <1>3, <1>4 DEF Integral
  <2>2. w - (w % 2) \in Int /\ (w - (w % 2)) % 2 = 0
    OBVIOUS
  <2>3. Coerce(Schema[k], Clamp(Schema[k], v)) = Clamp(Schema[k], v) - (Clamp(Schema[k], v) % 2)
    BY <1>2, <1>4 DEF Coerce, Integral
  <2>4. QED
    BY <2>1, <2>2, <2>3
<1>5. CASE ~Schema[k].int
  BY <1>2, <1>3, <1>5 DEF Coerce, Integral
<1>6. QED
  BY <1>4, <1>5

LEMMA ValueType ==
  ASSUME NEW rows \in Seq(Row), NEW k \in Keys
  PROVE  Value(rows, k) \in Int
<1>1. Schema[k] \in [int : BOOLEAN, min : Int, max : Int, default : Int]
  BY ModConfigAssumption
<1>2. \A t \in Int \cup {Junk} : Coerce(Schema[k], t) \in Int
  BY <1>1 DEF Coerce, Integral
<1>3. CASE Lookup(rows, k) = Unset
  BY <1>1, <1>3 DEF Value
<1>4. CASE Lookup(rows, k) # Unset
  <2>1. PICK i \in DOMAIN rows : Lookup(rows, k) = rows[i]
    BY <1>4, Found
  <2>2. rows[i].val \in Int \cup {Junk}
    <3>1. rows[i] \in Row
      OBVIOUS
    <3>2. QED
      BY <3>1 DEF Row
  <2>3. QED
    BY <1>2, <1>4, <2>1, <2>2 DEF Value
<1>5. QED
  BY <1>3, <1>4

(***************************************************************************)
(* The settings: the two editors and the file between them.                *)
(***************************************************************************)
Saving == game \in {"saving", "leaving"}
Storing == launcher \in {"saving", "removing"}

\* The launcher has something to write, or is writing it.
Unstored == kvdirty \/ launcher = "removing"

\* Of every key, the value a reader of these rows sees.
Says(rows) == [k \in Keys |-> Value(rows, k)]

\* One editor at a time has the file open, it wrote last, and the other is behind.
OneWriter ==
    /\ Saving => /\ file = <<>> /\ dirty /\ ~Storing
                 /\ "game" \notin behind /\ "launcher" \in behind
    /\ Storing => /\ file = <<>> /\ ~Saving
                  /\ "launcher" \notin behind /\ "game" \in behind
    /\ game = "off" => ~dirty
    /\ launcher = "off" => ~kvdirty
    /\ launcher = "saving" => kvdirty

\* The last edits are in the file when nobody has anything to write, and in the
\* copy of the one editor that does, unless the other has written since it read.
EditsAreKept ==
    /\ ~dirty /\ ~Unstored => Says(file) = last
    /\ dirty /\ ~Unstored /\ "game" \notin behind => Says(table) = last
    /\ ~dirty /\ Unstored /\ "launcher" \notin behind => Says(kv) = last

\* An editor that has changed nothing since it last read or wrote the file says what the file says.
InStep ==
    /\ game # "off" /\ ~dirty /\ "game" \notin behind => Says(table) = Says(file)
    /\ launcher # "off" /\ ~Unstored /\ "launcher" \notin behind => Says(kv) = Says(file)

ConfigInv == ConfigTypeOK /\ (cause = "none" => OneWriter /\ EditsAreKept /\ InStep)

LEMMA SaysType ==
  ASSUME NEW rows \in Seq(Row)
  PROVE  Says(rows) \in [Keys -> Int]
BY ValueType DEF Says

LEMMA SaysUpdated ==
  ASSUME NEW rows \in Seq(Row), NEW k \in Keys, NEW text \in Int, Coerce(Schema[k], text) = text
  PROVE  /\ Updated(rows, k, text) \in Seq(Row)
         /\ Says(Updated(rows, k, text)) = [Says(rows) EXCEPT ![k] = text]
<1> DEFINE new == Updated(rows, k, text)
<1>1. /\ new \in Seq(Row)
      /\ \A q \in Keys : Lookup(new, q) = IF q = k THEN [key |-> k, val |-> text] ELSE Lookup(rows, q)
  BY LookupUpdated
<1> HIDE DEF new
<1>2. [key |-> k, val |-> text] # Unset
  BY ModConfigAssumption DEF Unset
<1>3. Value(new, k) = text
  BY <1>1, <1>2 DEF Value
<1>4. \A q \in Keys : q # k => Value(new, q) = Value(rows, q)
  BY <1>1 DEF Value
<1>5. Says(new) = [Says(rows) EXCEPT ![k] = text]
  BY <1>3, <1>4 DEF Says
<1>6. QED
  BY <1>1, <1>5 DEF new

LEMMA SaysWithout ==
  ASSUME NEW rows \in Seq(Row), NEW m \in Mods
  PROVE  /\ WithoutMod(rows, m) \in Seq(Row)
         /\ Says(WithoutMod(rows, m)) =
              [k \in Keys |-> IF ModOf[k] = m THEN Schema[k].default ELSE Says(rows)[k]]
<1>1. /\ WithoutMod(rows, m) \in Seq(Row)
      /\ \A q \in Keys : Lookup(WithoutMod(rows, m), q) = IF ModOf[q] = m THEN Unset ELSE Lookup(rows, q)
  BY LookupWithoutMod
<1>2. \A q \in Keys : Value(WithoutMod(rows, m), q) =
                        IF ModOf[q] = m THEN Schema[q].default ELSE Value(rows, q)
  BY <1>1 DEF Value
<1>3. QED
  BY <1>1, <1>2 DEF Says

\* Any part of a sequence of rows is one.
LEMMA PartOfRows ==
  ASSUME NEW rows \in Seq(Row), NEW i \in Nat \ {0}, NEW j \in Nat, j <= Len(rows)
  PROVE  SubSeq(rows, i, j) \in Seq(Row)
OBVIOUS

LEMMA OverlayRows ==
  ASSUME NEW rows \in Seq(Row), file \in Seq(Row)
  PROVE  /\ Overlay(rows) \in Seq(Row)
         /\ file = <<>> => Overlay(rows) = rows
<1>1. SubSeq(file, Len(rows) + 1, Len(file)) \in Seq(Row)
  BY PartOfRows
<1>2. ASSUME file = <<>> PROVE Overlay(rows) = rows
  <2>1. SubSeq(file, Len(rows) + 1, Len(file)) = << >>
    BY <1>2
  <2>2. rows \o << >> = rows
    OBVIOUS
  <2>3. Overlay(rows) = rows \o << >>
    BY <2>1 DEF Overlay
  <2>4. QED
    BY <2>2, <2>3
<1>3. QED
  BY <1>1, <1>2 DEF Overlay

LEMMA CutRows ==
  ASSUME NEW rows \in Seq(Row), file \in Seq(Row), CutShort(rows)
  PROVE  file' \in Seq(Row)
<1>1. PICK n \in 0..Len(rows) - 1 : file' = Overlay(SubSeq(rows, 1, n))
  BY DEF CutShort
<1>2. SubSeq(rows, 1, n) \in Seq(Row)
  BY PartOfRows
<1>3. QED
  BY <1>1, <1>2, OverlayRows

LEMMA FirstRowsType ==
  ASSUME NEW rows \in Seq(Row)
  PROVE  /\ FirstRows(rows) \in Seq(Row)
         /\ Len(rows) <= MAX_MOD_KV => FirstRows(rows) = rows
<1>1. MAX_MOD_KV \in Nat /\ Len(rows) \in Nat
  BY ModConfigAssumption
<1>2. CASE Len(rows) <= MAX_MOD_KV
  <2>1. (IF Len(rows) < MAX_MOD_KV THEN Len(rows) ELSE MAX_MOD_KV) = Len(rows)
    BY <1>1, <1>2
  <2>2. SubSeq(rows, 1, Len(rows)) = rows
    OBVIOUS
  <2>3. QED
    BY <2>1, <2>2 DEF FirstRows
<1>3. CASE Len(rows) > MAX_MOD_KV
  <2>1. FirstRows(rows) = SubSeq(rows, 1, MAX_MOD_KV)
    BY <1>1, <1>3 DEF FirstRows
  <2>2. QED
    BY <1>1, <1>3, <2>1, PartOfRows
<1>4. QED
  BY <1>1, <1>2, <1>3

Causes == {"none", "overflow", "full", "torn", "cut", "unread", "stale", "unsaved", "unwritten"}
Editors == {"game", "launcher"}

LEMMA AccountType ==
  ASSUME NEW what \in Causes, NEW edited \in [Keys -> Int], NEW misses \in SUBSET Editors,
         cause \in Causes, Account(what, edited, misses)
  PROVE  last' \in [Keys -> Int] /\ behind' \in SUBSET Editors /\ cause' \in Causes
<1>1. Defaults \in [Keys -> Int]
  BY ModConfigAssumption DEF Defaults
<1>2. QED
  BY <1>1 DEF Account

\* Nothing is lost only if nothing had been, and this step loses nothing.
LEMMA AccountNone ==
  ASSUME NEW what, NEW edited, NEW misses, Account(what, edited, misses), cause' = "none"
  PROVE  cause = "none" /\ what = "none" /\ last' = edited /\ behind' = misses
BY DEF Account

LEMMA OpensType ==
  ASSUME NEW me \in Editors, NEW other \in Editors, NEW edited \in [Keys -> Int],
         ConfigTypeOK, Opens(me, other, edited)
  PROVE  /\ file' = <<>>
         /\ last' \in [Keys -> Int] /\ behind' \in SUBSET Editors /\ cause' \in Causes
<1>1. /\ (IF me \in behind THEN "stale" ELSE "none") \in Causes
      /\ behind \cup {other} \in SUBSET Editors /\ cause \in Causes
  BY DEF ConfigTypeOK, Causes, Editors
<1>2. QED
  BY <1>1, AccountType DEF Opens

LEMMA OpensNone ==
  ASSUME NEW me, NEW other, NEW edited, Opens(me, other, edited), cause' = "none"
  PROVE  /\ cause = "none" /\ me \notin behind
         /\ file' = <<>> /\ last' = edited /\ behind' = behind \cup {other}
<1>1. (IF me \in behind THEN "stale" ELSE "none") = "none"
  BY AccountNone DEF Opens
<1>2. QED
  BY <1>1, AccountNone DEF Opens

LEMMA ReadingRows ==
  ASSUME NEW writer, NEW r \in Reading(writer), file \in Seq(Row)
  PROVE  /\ r.rows \in Seq(Row) /\ r.what \in Causes
         /\ r.what = "none" => r.rows = file /\ writer \notin {"saving", "leaving", "removing"}
<1>1. CASE writer \in {"saving", "leaving", "removing"}
  <2>1. r = [rows |-> file, what |-> "torn"]
    BY <1>1 DEF Reading
  <2>2. QED
    BY <1>1, <2>1 DEF Causes
<1>2. CASE writer \notin {"saving", "leaving", "removing"}
  <2>1. \/ r.rows = file /\ r.what = "none"
        \/ r.rows = << >> /\ r.what = "unread"
    BY <1>2 DEF Reading
  <2>2. << >> \in Seq(Row) /\ "none" \in Causes /\ "unread" \in Causes
    BY DEF Causes
  <2>3. QED
    BY <1>2, <2>1, <2>2
<1>3. QED
  BY <1>1, <1>2

\* The parts of the type invariant, each with one kind of value.
LEMMA TypeParts ==
  ConfigTypeOK <=>
    /\ file \in Seq(Row) /\ table \in Seq(Row) /\ kv \in Seq(Row)
    /\ game \in {"off", "up", "saving", "leaving"}
    /\ launcher \in {"off", "up", "saving", "removing"}
    /\ dirty \in BOOLEAN /\ polled \in BOOLEAN /\ kvdirty \in BOOLEAN /\ quiet \in BOOLEAN
    /\ since \in 0..DWORD-1 /\ clock \in 0..DWORD-1
    /\ last \in [Keys -> Int] /\ behind \in SUBSET Editors /\ cause \in Causes
<1>1. \A S : {file, table, kv} \subseteq S <=> file \in S /\ table \in S /\ kv \in S
  OBVIOUS
<1>2. QED
  BY <1>1 DEF ConfigTypeOK, Editors, Causes

LEMMA ConfigTypesInit == ConfigInit => ConfigTypeOK
<1> SUFFICES ASSUME ConfigInit PROVE ConfigTypeOK
  OBVIOUS
<1>1. file \in Seq(Row) /\ << >> \in Seq(Row)
  BY ModConfigAssumption DEF ConfigInit
<1>2. last \in [Keys -> Int]
  BY <1>1, ValueType DEF ConfigInit
<1>3. 0 \in 0..DWORD-1 /\ DWORD - 1 \in 0..DWORD-1
  BY ModConfigAssumption
<1>4. QED
  BY <1>1, <1>2, <1>3 DEF ConfigInit, ConfigTypeOK

LEMMA ConfigTypesStep ==
  ASSUME ConfigTypeOK, [ConfigNext]_configVars
  PROVE  ConfigTypeOK'
<1> USE DEF copies, clocks, history
<1>0. /\ file \in Seq(Row) /\ table \in Seq(Row) /\ kv \in Seq(Row)
      /\ game \in {"off", "up", "saving", "leaving"}
      /\ launcher \in {"off", "up", "saving", "removing"}
      /\ dirty \in BOOLEAN /\ polled \in BOOLEAN /\ kvdirty \in BOOLEAN /\ quiet \in BOOLEAN
      /\ since \in 0..DWORD-1 /\ clock \in 0..DWORD-1
      /\ last \in [Keys -> Int] /\ behind \in SUBSET Editors /\ cause \in Causes
      /\ << >> \in Seq(Row)
  BY TypeParts
<1>c. /\ 0 \in 0..DWORD-1 /\ DWORD - 1 \in 0..DWORD-1 /\ (clock + 1) % DWORD \in 0..DWORD-1
      /\ Defaults \in [Keys -> Int]
  BY <1>0, ModConfigAssumption DEF Defaults
<1> DEFINE History == last' \in [Keys -> Int] /\ behind' \in SUBSET Editors /\ cause' \in Causes
<1>m. "game" \in Editors /\ "launcher" \in Editors /\ \A s \in {"none", "overflow", "full", "torn", "cut", "unread", "unsaved", "unwritten"} : s \in Causes
  BY DEF Editors, Causes
<1>a. ASSUME NEW what \in Causes, NEW edited \in [Keys -> Int], NEW misses \in SUBSET Editors,
             Account(what, edited, misses)
      PROVE  History
  BY <1>0, <1>a, AccountType
<1>o. ASSUME NEW me \in Editors, NEW other \in Editors, NEW edited \in [Keys -> Int], Opens(me, other, edited)
      PROVE  History /\ file' \in Seq(Row)
  BY <1>0, <1>o, OpensType
<1>e. ASSUME NEW k \in Keys, NEW v \in Inputs[k]
      PROVE  [last EXCEPT ![k] = Clamp(Schema[k], v)] \in [Keys -> Int]
  BY <1>0, ClampReads
<1>g. GameGone => game' = "off" /\ table' = << >> /\ dirty' = FALSE /\ since' = 0 /\ clock' = DWORD - 1 /\ polled' = FALSE
  BY DEF GameGone, Settled
<1>h. (UNCHANGED history) => History
  BY <1>0
<1> HIDE DEF History
<1>1. CASE ConfigLoad
  <2>1. PICK r \in Reading(launcher) :
           /\ table' = FirstRows(r.rows)
           /\ Account(IF Len(r.rows) > MAX_MOD_KV THEN "overflow" ELSE r.what, last, behind \ {"game"})
    BY <1>1 DEF ConfigLoad
  <2>2. r.rows \in Seq(Row) /\ r.what \in Causes
    BY <1>0, ReadingRows
  <2>3. table' \in Seq(Row)
    BY <2>1, <2>2, FirstRowsType
  <2>4. (IF Len(r.rows) > MAX_MOD_KV THEN "overflow" ELSE r.what) \in Causes /\ behind \ {"game"} \in SUBSET Editors
    BY <1>0, <1>m, <2>2
  <2>5. History
    BY <1>0, <1>a, <2>1, <2>4
  <2>6. QED
    BY <1>0, <1>1, <2>3, <2>5 DEF ConfigLoad, ConfigTypeOK, History, Editors, Causes
<1>2. CASE Safepoint
  <2>1. History /\ file' \in Seq(Row) /\ game' \in {"up", "saving"} /\ dirty' = dirty
    <3>1. CASE Opens("game", "launcher", last) /\ UNCHANGED dirty /\ game' = "saving"
      BY <1>0, <1>m, <1>o, <3>1
    <3>2. CASE UNCHANGED <<game, file, dirty, history>>
      BY <1>0, <1>2, <1>h, <3>2 DEF Safepoint
    <3>3. QED
      BY <1>2, <3>1, <3>2 DEF Safepoint, OpenFails
  <2>2. QED
    BY <1>0, <1>2, <2>1 DEF Safepoint, ConfigTypeOK, History, Editors, Causes
<1>3. CASE WriteRows
  <2>1. file' \in Seq(Row) /\ History
    <3>1. CASE file' = Overlay(table) /\ UNCHANGED history
      BY <1>0, <1>h, <3>1, OverlayRows
    <3>2. CASE CutShort(table) /\ Account("cut", last, behind)
      BY <1>0, <1>m, <1>a, <3>2, CutRows
    <3>3. QED
      BY <1>3, <3>1, <3>2 DEF WriteRows
  <2>2. /\ game' \in {"off", "up"} /\ table' \in {table, << >>}
        /\ dirty' = FALSE /\ since' = 0 /\ clock' = DWORD - 1 /\ polled' = FALSE
    BY <1>3 DEF WriteRows, Settled, GameGone
  <2>3. QED
    BY <1>0, <1>c, <1>3, <2>1, <2>2 DEF WriteRows, ConfigTypeOK, History, Editors, Causes
<1>4. CASE Shutdown
  <2>1. /\ History /\ file' \in Seq(Row)
        /\ \/ game' = "leaving" /\ UNCHANGED <<table, dirty, clocks>>
           \/ GameGone
    <3>1. CASE Opens("game", "launcher", last) /\ game' = "leaving" /\ UNCHANGED <<table, dirty, clocks>>
      BY <1>0, <1>m, <1>o, <3>1
    <3>2. CASE GameGone /\ Account("unsaved", last, behind) /\ UNCHANGED file
      BY <1>0, <1>m, <1>a, <3>2
    <3>3. CASE GameGone /\ UNCHANGED <<file, history>>
      BY <1>0, <1>h, <3>3
    <3>4. QED
      BY <1>4, <3>1, <3>2, <3>3 DEF Shutdown
  <2>2. QED
    BY <1>0, <1>c, <1>g, <1>4, <2>1 DEF Shutdown, ConfigTypeOK, History, Editors, Causes
<1>5. CASE GameEnds
  <2>1. History /\ file' \in Seq(Row)
    <3>1. CASE Account(IF dirty THEN "unsaved" ELSE "none", last, behind) /\ UNCHANGED file
      <4>1. (IF dirty THEN "unsaved" ELSE "none") \in Causes
        BY <1>m
      <4>2. QED
        BY <1>0, <1>a, <3>1, <4>1
    <3>2. CASE /\ Account("torn", last, behind)
               /\ \E n \in 0..Len(table) : file' = Overlay(SubSeq(table, 1, n))
      <4>1. PICK n \in 0..Len(table) : file' = Overlay(SubSeq(table, 1, n))
        BY <3>2
      <4>2. SubSeq(table, 1, n) \in Seq(Row)
        BY <1>0, PartOfRows
      <4>3. QED
        BY <1>0, <1>m, <1>a, <3>2, <4>1, <4>2, OverlayRows
    <3>3. QED
      BY <1>5, <3>1, <3>2 DEF GameEnds
  <2>2. QED
    BY <1>0, <1>c, <1>g, <1>5, <2>1 DEF GameEnds, ConfigTypeOK, History, Editors, Causes
<1>6. CASE Tick
  BY <1>0, <1>c, <1>6 DEF Tick, ConfigTypeOK
<1>7. ASSUME NEW k \in Keys, NEW v \in Inputs[k], CfgSet(k, v) PROVE ConfigTypeOK'
  <2>1. CASE /\ table' = Updated(table, k, Clamp(Schema[k], v))
             /\ dirty' = TRUE /\ since' = clock
             /\ Account("none", [last EXCEPT ![k] = Clamp(Schema[k], v)], behind)
    <3>1. table' \in Seq(Row)
      BY <1>0, <2>1, ClampReads, SaysUpdated
    <3>2. History
      BY <1>0, <1>m, <1>a, <1>e, <2>1
    <3>3. QED
      BY <1>0, <1>7, <2>1, <3>1, <3>2 DEF CfgSet, ConfigTypeOK, History, Editors, Causes
  <2>2. CASE Account("full", last, behind) /\ UNCHANGED <<table, dirty, since>>
    <3>1. History
      BY <1>0, <1>m, <1>a, <2>2
    <3>2. QED
      BY <1>0, <1>7, <2>2, <3>1 DEF CfgSet, ConfigTypeOK, History, Editors, Causes
  <2>3. QED
    BY <1>7, <2>1, <2>2 DEF CfgSet
<1>8. CASE UseGameDir
  <2>1. PICK r \in Reading(game) :
           /\ kv' = r.rows
           /\ Account(IF kvdirty THEN "unsaved" ELSE r.what, last, behind \ {"launcher"})
    BY <1>8 DEF UseGameDir
  <2>2. r.rows \in Seq(Row) /\ r.what \in Causes
    BY <1>0, ReadingRows
  <2>3. (IF kvdirty THEN "unsaved" ELSE r.what) \in Causes /\ behind \ {"launcher"} \in SUBSET Editors
    BY <1>0, <1>m, <2>2
  <2>4. History
    BY <1>0, <1>a, <2>1, <2>3
  <2>5. QED
    BY <1>0, <1>8, <2>1, <2>2, <2>4 DEF UseGameDir, ConfigTypeOK, History, Editors, Causes
<1>9. ASSUME NEW k \in Keys, NEW v \in Inputs[k], Edit(k, v) PROVE ConfigTypeOK'
  <2>1. /\ kv' = Updated(kv, k, Clamp(Schema[k], v))
        /\ Account("none", [last EXCEPT ![k] = Clamp(Schema[k], v)], behind)
    BY <1>9 DEF Edit
  <2>2. kv' \in Seq(Row)
    BY <1>0, <2>1, ClampReads, SaysUpdated
  <2>3. History
    BY <1>0, <1>m, <1>a, <1>e, <2>1
  <2>4. QED
    BY <1>0, <1>9, <2>2, <2>3 DEF Edit, ConfigTypeOK, History, Editors, Causes
<1>10. CASE SaveModsCfg
  <2>1. History /\ file' \in Seq(Row)
    BY <1>0, <1>m, <1>o, <1>10 DEF SaveModsCfg
  <2>2. QED
    BY <1>0, <1>10, <2>1 DEF SaveModsCfg, ConfigTypeOK, History, Editors, Causes
<1>11. ASSUME NEW m \in Mods, RemoveModValues(m) PROVE ConfigTypeOK'
  <2> DEFINE without == [k \in Keys |-> IF ModOf[k] = m THEN Schema[k].default ELSE last[k]]
  <2>1. without \in [Keys -> Int]
    BY <1>0, ModConfigAssumption
  <2> HIDE DEF without
  <2>2. kv' \in Seq(Row)
    BY <1>0, <1>11, SaysWithout DEF RemoveModValues
  <2>3. History /\ file' \in Seq(Row) /\ launcher' \in {"removing", launcher}
    <3>1. CASE launcher' = "removing" /\ Opens("launcher", "game", without)
      BY <1>0, <1>m, <1>o, <2>1, <3>1
    <3>2. CASE Account("unwritten", without, behind) /\ UNCHANGED <<launcher, file>>
      BY <1>0, <1>m, <1>a, <2>1, <3>2
    <3>3. QED
      BY <1>11, <3>1, <3>2 DEF RemoveModValues, without
  <2>4. QED
    BY <1>0, <1>11, <2>2, <2>3 DEF RemoveModValues, ConfigTypeOK, History, Editors, Causes
<1>12. CASE WriteKv
  <2>1. file' \in Seq(Row) /\ History /\ kvdirty' \in BOOLEAN
    <3>1. CASE file' = Overlay(kv) /\ kvdirty' = (kvdirty /\ launcher # "saving") /\ UNCHANGED history
      <4>1. kvdirty' \in BOOLEAN
        BY <3>1
      <4>2. QED
        BY <1>0, <1>h, <3>1, <4>1, OverlayRows
    <3>2. CASE /\ CutShort(kv) /\ UNCHANGED kvdirty
               /\ Account(IF launcher = "removing" THEN "cut" ELSE "none", last, behind)
      <4>1. (IF launcher = "removing" THEN "cut" ELSE "none") \in Causes
        BY <1>m
      <4>2. QED
        BY <1>0, <1>a, <3>2, <4>1, CutRows
    <3>3. QED
      BY <1>12, <3>1, <3>2 DEF WriteKv
  <2>2. QED
    BY <1>0, <1>12, <2>1 DEF WriteKv, ConfigTypeOK, History, Editors, Causes
<1>13. CASE LauncherEnds
  <2>1. History /\ file' \in Seq(Row)
    <3>1. CASE Account(IF kvdirty THEN "unsaved" ELSE "none", last, behind) /\ UNCHANGED file
      <4>1. (IF kvdirty THEN "unsaved" ELSE "none") \in Causes
        BY <1>m
      <4>2. QED
        BY <1>0, <1>a, <3>1, <4>1
    <3>2. CASE /\ Account("torn", last, behind)
               /\ \E n \in 0..Len(kv) : file' = Overlay(SubSeq(kv, 1, n))
      <4>1. PICK n \in 0..Len(kv) : file' = Overlay(SubSeq(kv, 1, n))
        BY <3>2
      <4>2. SubSeq(kv, 1, n) \in Seq(Row)
        BY <1>0, PartOfRows
      <4>3. QED
        BY <1>0, <1>m, <1>a, <3>2, <4>1, <4>2, OverlayRows
    <3>3. QED
      BY <1>13, <3>1, <3>2 DEF LauncherEnds
  <2>2. QED
    BY <1>0, <1>13, <2>1 DEF LauncherEnds, ConfigTypeOK, History, Editors, Causes
<1>14. CASE Quieten
  BY <1>0, <1>14 DEF Quieten, ConfigTypeOK
<1>15. CASE UNCHANGED configVars
  BY <1>15 DEF configVars, ConfigTypeOK
<1>16. QED
  BY <1>1, <1>2, <1>3, <1>4, <1>5, <1>6, <1>7, <1>8, <1>9, <1>10, <1>11, <1>12, <1>13, <1>14, <1>15 DEF ConfigNext

(***************************************************************************)
(* While nothing that loses an edit has happened, every step keeps the     *)
(* editors and the file in order.                                          *)
(***************************************************************************)
LEMMA ConfigStep ==
  ASSUME ConfigTypeOK, cause = "none" => OneWriter /\ EditsAreKept /\ InStep,
         ConfigNext, cause' = "none"
  PROVE  OneWriter' /\ EditsAreKept' /\ InStep'
<1> USE DEF copies, clocks, history
<1> DEFINE Good == OneWriter /\ EditsAreKept /\ InStep
<1>0. /\ file \in Seq(Row) /\ table \in Seq(Row) /\ kv \in Seq(Row)
      /\ game \in {"off", "up", "saving", "leaving"}
      /\ launcher \in {"off", "up", "saving", "removing"}
      /\ dirty \in BOOLEAN /\ kvdirty \in BOOLEAN
      /\ last \in [Keys -> Int]
  BY TypeParts
<1>h. (UNCHANGED history) => cause = "none"
  OBVIOUS
<1>g. GameGone => game' = "off" /\ dirty' = FALSE
  BY DEF GameGone, Settled
<1>1. CASE ConfigLoad
  <2>1. PICK r \in Reading(launcher) :
           /\ table' = FirstRows(r.rows)
           /\ Account(IF Len(r.rows) > MAX_MOD_KV THEN "overflow" ELSE r.what, last, behind \ {"game"})
    BY <1>1 DEF ConfigLoad
  <2>2. /\ cause = "none" /\ (IF Len(r.rows) > MAX_MOD_KV THEN "overflow" ELSE r.what) = "none"
        /\ last' = last /\ behind' = behind \ {"game"}
    BY <2>1, AccountNone
  <2>3. r.what = "none" /\ ~(Len(r.rows) > MAX_MOD_KV)
    BY <2>2
  <2>4. r.rows = file /\ launcher \notin {"saving", "leaving", "removing"}
    BY <1>0, <2>3, ReadingRows
  <2>5. table' = file
    <3>1. Len(file) <= MAX_MOD_KV
      BY <1>0, <2>3, <2>4, ModConfigAssumption
    <3>2. QED
      BY <1>0, <2>1, <2>4, <3>1, FirstRowsType
  <2>6. Good /\ game = "off" /\ game' = "up" /\ UNCHANGED <<file, dirty, launcher, kv, kvdirty, last>>
    BY <1>1, <2>2 DEF ConfigLoad
  <2>7. OneWriter'
    BY <2>2, <2>4, <2>6 DEF OneWriter, Saving, Storing
  <2>8. EditsAreKept'
    BY <2>2, <2>4, <2>6 DEF EditsAreKept, OneWriter, Unstored
  <2>9. InStep'
    BY <2>2, <2>5, <2>6 DEF InStep, Unstored
  <2>10. QED
    BY <2>7, <2>8, <2>9
\* The game starts to write: it was not behind, so its copy has the last edits; the launcher's has not.
<1>o. ASSUME Opens("game", "launcher", last), dirty, dirty' = dirty, game = "up",
             game' \in {"saving", "leaving"},
             UNCHANGED <<table, launcher, kv, kvdirty>>
      PROVE  OneWriter' /\ EditsAreKept' /\ InStep'
  <2>1. /\ Good /\ "game" \notin behind
        /\ file' = << >> /\ last' = last /\ behind' = behind \cup {"launcher"}
    BY <1>o, OpensNone
  <2>2. ~Storing
    BY <2>1 DEF OneWriter
  <2>3. OneWriter'
    BY <1>0, <1>o, <2>1, <2>2 DEF OneWriter, Saving, Storing
  <2>4. EditsAreKept'
    BY <1>o, <2>1 DEF EditsAreKept, Unstored
  <2>5. InStep'
    BY <1>o, <2>1 DEF InStep
  <2>6. QED
    BY <2>3, <2>4, <2>5
<1>2. CASE Safepoint
  <2>1. /\ game = "up" /\ dirty /\ UNCHANGED <<table, launcher, kv, kvdirty>> /\ dirty' = dirty
        /\ \/ Opens("game", "launcher", last) /\ game' = "saving"
           \/ UNCHANGED <<game, file, history>>
    BY <1>2 DEF Safepoint, OpenFails
  <2>2. CASE UNCHANGED <<game, file, history>>
    <3>1. Good
      BY <1>h, <2>2
    <3>2. QED
      BY <2>1, <2>2, <3>1 DEF OneWriter, EditsAreKept, InStep, Saving, Storing, Unstored
  <2>3. QED
    BY <1>o, <2>1, <2>2
<1>3. CASE WriteRows
  <2>1. /\ Good /\ Saving /\ file' = Overlay(table)
        /\ UNCHANGED <<launcher, kv, kvdirty, last, behind>>
        /\ dirty' = FALSE
        /\ \/ game' = "up" /\ table' = table
           \/ game' = "off"
    <3>1. file' = Overlay(table) /\ UNCHANGED history
      BY <1>3, AccountNone DEF WriteRows
    <3>2. QED
      BY <1>3, <1>g, <1>h, <3>1 DEF WriteRows, Saving, Settled
  <2>2. file = << >> /\ dirty /\ ~Storing /\ "game" \notin behind /\ "launcher" \in behind
    BY <2>1 DEF OneWriter
  <2>3. file' = table
    BY <1>0, <2>1, <2>2, OverlayRows
  <2>4. OneWriter'
    BY <2>1, <2>2 DEF OneWriter, Saving, Storing
  <2>5. EditsAreKept'
    BY <2>1, <2>2, <2>3 DEF EditsAreKept, Unstored
  <2>6. InStep'
    BY <2>1, <2>2, <2>3 DEF InStep, Unstored
  <2>7. QED
    BY <2>4, <2>5, <2>6
\* An editor goes away with nothing unsaved.
<1>q. ASSUME cause = "none", ~dirty, GameGone, UNCHANGED <<file, launcher, kv, kvdirty, last, behind>>
      PROVE  OneWriter' /\ EditsAreKept' /\ InStep'
  BY <1>q, <1>g DEF OneWriter, EditsAreKept, InStep, Saving, Storing, Unstored
<1>4. CASE Shutdown
  <2>1. UNCHANGED <<launcher, kv, kvdirty, quiet>> /\ game = "up"
    BY <1>4 DEF Shutdown
  <2>2. CASE dirty /\ game' = "leaving" /\ Opens("game", "launcher", last) /\ UNCHANGED <<table, dirty, clocks>>
    BY <1>o, <2>1, <2>2
  <2>3. CASE Account("unsaved", last, behind)
    BY <2>3, AccountNone
  <2>4. CASE ~dirty /\ GameGone /\ UNCHANGED <<file, history>>
    BY <1>h, <1>q, <2>1, <2>4
  <2>5. QED
    BY <1>4, <2>2, <2>3, <2>4 DEF Shutdown
<1>5. CASE GameEnds
  <2>1. GameGone /\ UNCHANGED <<launcher, kv, kvdirty, quiet>>
    BY <1>5 DEF GameEnds
  <2>2. CASE Account(IF dirty THEN "unsaved" ELSE "none", last, behind) /\ UNCHANGED file
    <3>1. /\ cause = "none" /\ (IF dirty THEN "unsaved" ELSE "none") = "none"
          /\ last' = last /\ behind' = behind
      BY <2>2, AccountNone
    <3>2. QED
      BY <1>0, <1>q, <2>1, <2>2, <3>1
  <2>3. CASE Account("torn", last, behind)
    BY <2>3, AccountNone
  <2>4. QED
    BY <1>5, <2>2, <2>3 DEF GameEnds
<1>6. CASE Tick
  <2>1. Good /\ UNCHANGED <<file, game, table, kv, dirty, launcher, kvdirty, last, behind>>
    BY <1>6, <1>h DEF Tick
  <2>2. QED
    BY <2>1 DEF OneWriter, EditsAreKept, InStep, Saving, Storing, Unstored
<1>7. ASSUME NEW k \in Keys, NEW v \in Inputs[k], CfgSet(k, v)
      PROVE  OneWriter' /\ EditsAreKept' /\ InStep'
  <2> DEFINE text == Clamp(Schema[k], v)
  <2>1. /\ game = "up" /\ table' = Updated(table, k, text) /\ dirty' = TRUE
        /\ Account("none", [last EXCEPT ![k] = text], behind)
        /\ UNCHANGED <<file, game, launcher, kv, kvdirty>>
    BY <1>7, AccountNone DEF CfgSet
  <2>2. Says(table') = [Says(table) EXCEPT ![k] = text]
    <3>1. text \in Int /\ Coerce(Schema[k], text) = text
      BY ClampReads
    <3> HIDE DEF text
    <3>2. Says(Updated(table, k, text)) = [Says(table) EXCEPT ![k] = text]
      BY <1>0, <3>1, SaysUpdated
    <3>3. QED
      BY <2>1, <3>2
  <2> HIDE DEF text
  <2>3. Good /\ last' = [last EXCEPT ![k] = text] /\ behind' = behind
    BY <2>1, AccountNone
  <2>4. ~Unstored /\ "game" \notin behind => Says(table) = last
    BY <1>0, <2>1, <2>3 DEF EditsAreKept, InStep
  <2>5. OneWriter'
    BY <2>1, <2>3 DEF OneWriter, Saving, Storing
  <2>6. EditsAreKept'
    BY <2>1, <2>2, <2>3, <2>4 DEF EditsAreKept, Unstored
  <2>7. InStep'
    BY <2>1, <2>3 DEF InStep, Unstored
  <2>8. QED
    BY <2>5, <2>6, <2>7
<1>8. CASE UseGameDir
  <2>1. PICK r \in Reading(game) :
           /\ kv' = r.rows
           /\ Account(IF kvdirty THEN "unsaved" ELSE r.what, last, behind \ {"launcher"})
    BY <1>8 DEF UseGameDir
  <2>2. /\ cause = "none" /\ (IF kvdirty THEN "unsaved" ELSE r.what) = "none"
        /\ last' = last /\ behind' = behind \ {"launcher"}
    BY <2>1, AccountNone
  <2>3. ~kvdirty /\ r.what = "none"
    BY <1>0, <2>2
  <2>4. kv' = file /\ ~Saving
    BY <1>0, <2>1, <2>3, ReadingRows DEF Saving
  <2>5. /\ Good /\ launcher \in {"off", "up"} /\ launcher' = "up" /\ kvdirty' = FALSE
        /\ UNCHANGED <<file, game, table, dirty, last>>
    BY <1>8, <2>2 DEF UseGameDir
  <2>6. OneWriter'
    BY <2>2, <2>4, <2>5 DEF OneWriter, Saving, Storing
  <2>7. EditsAreKept'
    BY <2>2, <2>3, <2>5 DEF EditsAreKept, Unstored
  <2>8. InStep'
    BY <2>2, <2>4, <2>5 DEF InStep
  <2>9. QED
    BY <2>6, <2>7, <2>8
\* What the launcher's copy says before an edit.
<1>l. ASSUME cause = "none", launcher = "up", ~dirty, "launcher" \notin behind
      PROVE  Says(kv) = last
  <2>1. CASE Unstored
    BY <1>l, <2>1 DEF EditsAreKept
  <2>2. CASE ~Unstored
    BY <1>l, <2>2 DEF EditsAreKept, InStep
  <2>3. QED
    BY <2>1, <2>2
<1>9. ASSUME NEW k \in Keys, NEW v \in Inputs[k], Edit(k, v)
      PROVE  OneWriter' /\ EditsAreKept' /\ InStep'
  <2> DEFINE text == Clamp(Schema[k], v)
  <2>1. /\ launcher = "up" /\ kv' = Updated(kv, k, text) /\ kvdirty' = TRUE
        /\ Account("none", [last EXCEPT ![k] = text], behind)
        /\ UNCHANGED <<file, game, table, dirty, launcher>>
    BY <1>9 DEF Edit
  <2>2. Says(kv') = [Says(kv) EXCEPT ![k] = text]
    <3>1. text \in Int /\ Coerce(Schema[k], text) = text
      BY ClampReads
    <3> HIDE DEF text
    <3>2. Says(Updated(kv, k, text)) = [Says(kv) EXCEPT ![k] = text]
      BY <1>0, <3>1, SaysUpdated
    <3>3. QED
      BY <2>1, <3>2
  <2> HIDE DEF text
  <2>3. Good /\ cause = "none" /\ last' = [last EXCEPT ![k] = text] /\ behind' = behind
    BY <2>1, AccountNone
  <2>4. OneWriter'
    BY <2>1, <2>3 DEF OneWriter, Saving, Storing
  <2>5. EditsAreKept'
    BY <1>l, <2>1, <2>2, <2>3 DEF EditsAreKept, Unstored
  <2>6. InStep'
    BY <2>1, <2>3 DEF InStep, Unstored
  <2>7. QED
    BY <2>4, <2>5, <2>6
<1>10. CASE SaveModsCfg
  <2>1. /\ launcher = "up" /\ kvdirty /\ launcher' = "saving" /\ Opens("launcher", "game", last)
        /\ UNCHANGED <<game, table, kv, dirty, kvdirty>>
    BY <1>10 DEF SaveModsCfg
  <2>2. /\ Good /\ "launcher" \notin behind
        /\ file' = << >> /\ last' = last /\ behind' = behind \cup {"game"}
    BY <2>1, OpensNone
  <2>3. ~Saving
    BY <2>2 DEF OneWriter
  <2>4. OneWriter'
    BY <2>1, <2>2, <2>3 DEF OneWriter, Saving, Storing
  <2>5. EditsAreKept'
    BY <2>1, <2>2 DEF EditsAreKept, Unstored
  <2>6. InStep'
    BY <2>1, <2>2 DEF InStep, Unstored
  <2>7. QED
    BY <2>4, <2>5, <2>6
<1>11. ASSUME NEW m \in Mods, RemoveModValues(m)
       PROVE  OneWriter' /\ EditsAreKept' /\ InStep'
  <2> DEFINE without == [k \in Keys |-> IF ModOf[k] = m THEN Schema[k].default ELSE last[k]]
  <2>1. /\ launcher = "up" /\ kv' = WithoutMod(kv, m)
        /\ \/ launcher' = "removing" /\ Opens("launcher", "game", without)
           \/ Account("unwritten", without, behind)
        /\ UNCHANGED <<game, table, dirty, kvdirty>>
    BY <1>11 DEF RemoveModValues
  <2>2. Says(kv) = last => Says(kv') = without
    BY <1>0, <2>1, SaysWithout
  <2> HIDE DEF without
  <2>3. launcher' = "removing" /\ Opens("launcher", "game", without)
    BY <2>1, AccountNone
  <2>4. /\ Good /\ cause = "none" /\ "launcher" \notin behind
        /\ file' = << >> /\ last' = without /\ behind' = behind \cup {"game"}
    BY <2>3, OpensNone
  <2>5. ~Saving
    BY <2>4 DEF OneWriter
  <2>6. OneWriter'
    BY <2>1, <2>3, <2>4, <2>5 DEF OneWriter, Saving, Storing
  <2>7. EditsAreKept'
    BY <1>l, <2>1, <2>2, <2>3, <2>4 DEF EditsAreKept, Unstored
  <2>8. InStep'
    BY <2>3, <2>4 DEF InStep, Unstored
  <2>9. QED
    BY <2>6, <2>7, <2>8
<1>12. CASE WriteKv
  <2>1. /\ Good /\ Storing /\ launcher' = "up"
        /\ \/ file' = Overlay(kv) /\ kvdirty' = (kvdirty /\ launcher # "saving")
           \/ launcher = "saving" /\ kvdirty' = kvdirty
        /\ UNCHANGED <<game, table, kv, dirty, last, behind>>
    <3>1. CASE file' = Overlay(kv) /\ kvdirty' = (kvdirty /\ launcher # "saving") /\ UNCHANGED history
      BY <1>12, <1>h, <3>1 DEF WriteKv, Storing
    <3>2. CASE /\ Account(IF launcher = "removing" THEN "cut" ELSE "none", last, behind)
               /\ UNCHANGED kvdirty
      <4>1. /\ cause = "none" /\ (IF launcher = "removing" THEN "cut" ELSE "none") = "none"
            /\ last' = last /\ behind' = behind
        BY <3>2, AccountNone
      <4>2. launcher # "removing"
        BY <4>1
      <4>3. QED
        BY <1>12, <3>2, <4>1, <4>2 DEF WriteKv, Storing
    <3>3. QED
      BY <1>12, <3>1, <3>2 DEF WriteKv
  <2>2. file = << >> /\ ~Saving /\ "launcher" \notin behind /\ "game" \in behind /\ Unstored
    BY <2>1 DEF OneWriter, Storing, Unstored
  <2>3. OneWriter'
    BY <2>1, <2>2 DEF OneWriter, Saving, Storing
  <2>4. CASE file' = Overlay(kv) /\ kvdirty' = (kvdirty /\ launcher # "saving")
    <3>1. file' = kv /\ kv' = kv
      BY <1>0, <2>1, <2>2, <2>4, OverlayRows
    <3>2. EditsAreKept'
      BY <2>1, <2>2, <2>4, <3>1 DEF EditsAreKept, Unstored
    <3>3. InStep'
      BY <2>1, <2>2, <2>4, <3>1 DEF InStep
    <3>4. QED
      BY <2>3, <3>2, <3>3
  \* save_mods_cfg failed: the edits are still the launcher's to write.
  <2>5. CASE launcher = "saving" /\ kvdirty' = kvdirty
    <3>1. kvdirty /\ Unstored'
      BY <2>1, <2>5 DEF OneWriter, Unstored
    <3>2. EditsAreKept'
      BY <2>1, <2>2, <3>1 DEF EditsAreKept
    <3>3. InStep'
      BY <2>1, <2>2, <3>1 DEF InStep
    <3>4. QED
      BY <2>3, <3>2, <3>3
  <2>6. QED
    BY <2>1, <2>4, <2>5
<1>13. CASE LauncherEnds
  <2>1. CASE launcher = "up" /\ Account(IF kvdirty THEN "unsaved" ELSE "none", last, behind) /\ UNCHANGED file
    <3>1. /\ cause = "none" /\ (IF kvdirty THEN "unsaved" ELSE "none") = "none"
          /\ last' = last /\ behind' = behind
      BY <2>1, AccountNone
    <3>2. /\ Good /\ ~kvdirty /\ ~Unstored /\ launcher' = "off" /\ kvdirty' = FALSE
          /\ UNCHANGED <<file, game, table, dirty, last, behind>>
      BY <1>0, <1>13, <2>1, <3>1 DEF LauncherEnds, Unstored
    <3>3. QED
      BY <3>2 DEF OneWriter, EditsAreKept, InStep, Saving, Storing, Unstored
  <2>2. CASE Account("torn", last, behind)
    BY <2>2, AccountNone
  <2>3. QED
    BY <1>13, <2>1, <2>2 DEF LauncherEnds
<1>14. CASE Quieten
  <2>1. Good /\ UNCHANGED <<file, game, table, kv, dirty, launcher, kvdirty, last, behind>>
    BY <1>14, <1>h DEF Quieten
  <2>2. QED
    BY <2>1 DEF OneWriter, EditsAreKept, InStep, Saving, Storing, Unstored
<1>15. QED
  BY <1>1, <1>2, <1>3, <1>4, <1>5, <1>6, <1>7, <1>8, <1>9, <1>10, <1>11, <1>12, <1>13, <1>14 DEF ConfigNext

\* The inductive invariant of the settings, and what it rests on.
THEOREM ConfigInvariant == ConfigSpec => []ConfigInv
<1>1. ConfigInit => ConfigInv
  <2> SUFFICES ASSUME ConfigInit PROVE ConfigInv
    OBVIOUS
  <2>1. Says(file) = last
    BY DEF ConfigInit, Says
  <2>2. OneWriter /\ EditsAreKept /\ InStep
    BY <2>1 DEF ConfigInit, OneWriter, EditsAreKept, InStep, Saving, Storing, Unstored
  <2>3. QED
    BY <2>2, ConfigTypesInit DEF ConfigInv
<1>2. ConfigInv /\ [ConfigNext]_configVars => ConfigInv'
  <2> SUFFICES ASSUME ConfigInv, [ConfigNext]_configVars PROVE ConfigInv'
    OBVIOUS
  <2>1. ConfigTypeOK'
    BY ConfigTypesStep DEF ConfigInv
  <2>2. CASE ConfigNext
    <3>1. cause' = "none" => OneWriter' /\ EditsAreKept' /\ InStep'
      BY <2>2, ConfigStep DEF ConfigInv
    <3>2. QED
      BY <2>1, <3>1 DEF ConfigInv
  <2>3. CASE UNCHANGED configVars
    <3>1. UNCHANGED <<file, game, table, kv, dirty, launcher, kvdirty, last, behind, cause>>
      BY <2>3 DEF configVars, copies, clocks, history
    <3>2. QED
      BY <2>1, <3>1 DEF ConfigInv, OneWriter, EditsAreKept, InStep, Saving, Storing, Unstored
  <2>4. QED
    BY <2>2, <2>3
<1>3. QED
  BY <1>1, <1>2, PTL DEF ConfigSpec

(***************************************************************************)
(* For any mods, settings, bounds and hand-written files, any number of    *)
(* starts, edits, writes and ends of the game and of the launcher: until   *)
(* one of the causes named, oss_mods.cfg says of every key what its last   *)
(* edit said whenever neither editor has anything left to write            *)
(* (config_mod_flush, save_mods_cfg, remove_mod).                          *)
(***************************************************************************)
THEOREM LastEditStandsHolds == ConfigSpec => []LastEditStands
<1>1. ConfigInv => LastEditStands
  <2> SUFFICES ASSUME ConfigInv, cause = "none", AtRest, NEW k \in Keys PROVE Value(file, k) = last[k]
    BY DEF LastEditStands
  <2>1. ~dirty /\ ~Unstored
    BY DEF ConfigInv, OneWriter, AtRest, Unstored
  <2>2. Says(file) = last
    BY <2>1 DEF ConfigInv, EditsAreKept
  <2>3. QED
    BY <2>2 DEF Says
<1>2. QED
  BY <1>1, ConfigInvariant, PTL
=============================================================================
