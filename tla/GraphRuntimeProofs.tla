------------------------- MODULE GraphRuntimeProofs -------------------------
(***************************************************************************)
(* What GraphRuntime keeps for every set of processes, every set of specs  *)
(* and any number of commands: one manager never aliases, a file of a      *)
(* runtime's directory is written once, and running containers find their  *)
(* token on disk.                                                          *)
(*                                                                         *)
(* The argument for the last two is ownership of a directory: from mkdir   *)
(* to the manifest it belongs to the process that prepares it, and from    *)
(* the first deleted file to the directory itself to the one that purges   *)
(* it; no two processes ever own the same one unless two purge it.         *)
(***************************************************************************)
EXTENDS GraphRuntime, FiniteSetTheorems, TLAPS

Stages == {"idle", "reserve", "prepare", "up", "load", "down", "purge"}

Commands == [pc : Stages, spec : Specs, next : 1..7, purge : BOOLEAN]

Ports == {s.port : s \in Specs}

Contents == RuntimeIds \union Nat \union Specs \union {None}

Project ==
    {None} \union [runtime : RuntimeIds, port : Ports, token : Nat, project : Projects]

\* Only prepare counts the files it writes, and a purge tells its first file
\* from the others.
Shape ==
    /\ command \in [Processes -> Commands]
    /\ \A p \in Processes :
          /\ command[p].pc \notin {"prepare", "purge"} => command[p].next = 1
          /\ command[p].pc = "purge" => command[p].next \in {1, 2}
    /\ disk \in [RuntimeIds -> [Files -> Contents]]
    /\ up \in [Projects -> Project]
    /\ tokens \in Nat
    /\ contested \in BOOLEAN
    /\ overlapped \in BOOLEAN

\* What the files say that are read again.
Said(r) ==
    /\ disk[r]["hydra-auth-token"] \in Nat \union {None}
    /\ disk[r]["compose.env"] \in Specs \union {None}
    /\ disk[r]["runtime-manifest.json"] \in {s \in Specs : s.runtime = r} \union {None}

WellSaid == \A r \in RuntimeIds : Said(r)

Writing(p) == command[p].pc = "prepare" /\ command[p].next > 1

Purging(p) == command[p].pc = "purge" /\ command[p].next = 2

Owns(p) == Writing(p) \/ Purging(p)

OneOwner ==
    \A p, q \in Processes :
        Owns(p) /\ Owns(q) /\ Spec(p).runtime = Spec(q).runtime => p = q

DirHeld == \A p \in Processes : Owns(p) => Dir(p)["dir"] # None

Unwritten ==
    \A p \in Processes : Writing(p) =>
        \A i \in 1..7 : command[p].next <= i => Dir(p)[FileOrder[i]] = None

Empty ==
    \A r \in RuntimeIds : disk[r]["dir"] = None => \A f \in Files : disk[r][f] = None

Ownership == ~contested => OneOwner /\ DirHeld /\ Unwritten /\ Empty

DInv == Shape /\ WellSaid /\ Ownership

-----------------------------------------------------------------------------
(* Constants.                                                              *)

LEMMA FileFacts ==
    /\ DOMAIN FileOrder = 1..7
    /\ Len(FileOrder) = 7
    /\ \A i \in 1..7 : FileOrder[i] \in Files
    /\ \A f \in Files : \E i \in 1..7 : f = FileOrder[i]
    /\ \A i, j \in 1..7 : FileOrder[i] = FileOrder[j] => i = j
    /\ \A i \in 1..7 :
          /\ FileOrder[i] = "dir" <=> i = 1
          /\ FileOrder[i] = ".xray-runtime" <=> i = 2
          /\ FileOrder[i] = "hydra-auth-token" <=> i = 3
          /\ FileOrder[i] = "compose.env" <=> i = 6
          /\ FileOrder[i] = "runtime-manifest.json" <=> i = 7
    /\ {"dir", ".xray-runtime", "hydra-auth-token", "compose.env",
        "runtime-manifest.json"} \subseteq Files
BY DEF FileOrder, Files

LEMMA RuntimeIdsOfSpecs == \A s \in Specs : s.runtime \in RuntimeIds /\ s.port \in Ports /\ s.project \in Projects
BY DEF RuntimeIds, Ports, Projects

LEMMA IdleCommand == Idle \in Commands /\ Idle.pc = "idle" /\ Idle.next = 1
<1>1. Specs # {}
  BY RuntimeAssumption
<1>2. (CHOOSE s \in Specs : TRUE) \in Specs
  BY <1>1
<1> QED
  BY <1>2 DEF Idle, Commands, Stages

-----------------------------------------------------------------------------
(* Steps that leave the directories alone.                                 *)

\* A step of p that writes and deletes nothing, and after which p owns nothing.
LEMMA QuietStep ==
    ASSUME Ownership, WellSaid,
           NEW p \in Processes,
           disk' = disk, contested' = contested,
           \A q \in Processes \ {p} : command'[q] = command[q],
           ~Owns(p)'
    PROVE  Ownership' /\ WellSaid'
<1>1. \A q \in Processes : Owns(q)' => /\ q # p
                                       /\ Owns(q)
                                       /\ command'[q] = command[q]
  BY DEF Owns, Writing, Purging
<1>2. \A q \in Processes : q # p => /\ Spec(q)' = Spec(q)
                                    /\ Dir(q)' = Dir(q)
                                    /\ Writing(q)' = Writing(q)
  BY DEF Spec, Dir, Writing
<1>3. ASSUME ~contested, OneOwner  PROVE OneOwner'
  BY <1>1, <1>2, <1>3 DEF OneOwner
<1>4. ASSUME DirHeld  PROVE DirHeld'
  BY <1>1, <1>2, <1>4 DEF DirHeld
<1>5. ASSUME Unwritten  PROVE Unwritten'
  <2> SUFFICES ASSUME NEW q \in Processes, Writing(q)', NEW i \in 1..7, command'[q].next <= i
               PROVE  Dir(q)'[FileOrder[i]] = None
    BY DEF Unwritten
  <2>1. Owns(q)'
    BY DEF Owns
  <2>2. q # p /\ Writing(q) /\ command'[q] = command[q]
    BY <1>1, <1>2, <2>1
  <2> QED
    BY <1>2, <1>5, <2>2 DEF Unwritten
<1>6. ASSUME Empty  PROVE Empty'
  BY <1>6 DEF Empty
<1>7. WellSaid'
  BY DEF WellSaid, Said
<1> QED
  BY <1>3, <1>4, <1>5, <1>6, <1>7 DEF Ownership

\* A command at its end, or before it has touched a directory.
LEMMA NotOwning ==
    ASSUME NEW p \in Processes,
           \/ command'[p].pc \in {"idle", "reserve", "up", "load", "down"}
           \/ command'[p].next = 1
    PROVE  ~Owns(p)'
BY DEF Owns, Writing, Purging

LEMMA EndsIdle ==
    ASSUME Shape, NEW p \in Processes, End(p)
    PROVE  /\ command' \in [Processes -> Commands]
           /\ command'[p] = Idle
           /\ \A q \in Processes \ {p} : command'[q] = command[q]
BY IdleCommand DEF Shape, End

\* The stages of one command change, and nothing else of it.
LEMMA GoesTo ==
    ASSUME Shape, NEW p \in Processes, NEW pc \in Stages, Goto(p, pc)
    PROVE  /\ command' \in [Processes -> Commands]
           /\ command'[p].pc = pc /\ command'[p].next = command[p].next
           /\ Spec(p)' = Spec(p)
           /\ \A q \in Processes \ {p} : command'[q] = command[q]
<1>1. command' = [command EXCEPT ![p] = [command[p] EXCEPT !.pc = pc]]
  BY DEF Goto, Shape
<1>2. [command[p] EXCEPT !.pc = pc] \in Commands
  BY DEF Shape, Commands
<1> QED
  BY <1>1, <1>2 DEF Shape, Commands, Spec

\* Nothing but the command of p has changed.
LEMMA QuietShape ==
    ASSUME Shape, NEW p \in Processes,
           command' \in [Processes -> Commands],
           \A q \in Processes \ {p} : command'[q] = command[q],
           command'[p].next = 1,
           UNCHANGED <<disk, up, tokens, overlapped, contested>>
    PROVE  Shape'
BY DEF Shape

LEMMA GiveStep ==
    ASSUME DInv, NEW p \in Processes, NEW spec \in Specs,
           NEW pc \in {"reserve", "load", "up"}, NEW purge \in BOOLEAN,
           Give(p, spec, pc, purge)
    PROVE  DInv'
<1> DEFINE new == [Idle EXCEPT !.pc = pc, !.spec = spec, !.purge = purge]
<1>1. new \in Commands /\ new.pc = pc /\ new.next = 1
  BY IdleCommand DEF Commands, Stages
<1>2. command' = [command EXCEPT ![p] = new]
  BY DEF Give
<1> HIDE DEF new
<1>3. /\ command' \in [Processes -> Commands]
      /\ command'[p] = new
      /\ \A q \in Processes \ {p} : command'[q] = command[q]
  BY <1>1, <1>2 DEF DInv, Shape
<1>4. UNCHANGED <<disk, up, tokens, overlapped, contested>>
  BY DEF Give, history
<1>5. Shape'
  BY <1>1, <1>3, <1>4, QuietShape DEF DInv
<1>6. ~Owns(p)'
  BY <1>1, <1>3, NotOwning
<1> QED
  BY <1>3, <1>4, <1>5, <1>6, QuietStep DEF DInv

\* A command that ends without having touched a file or a container.
LEMMA EndStep ==
    ASSUME DInv, NEW p \in Processes, End(p),
           UNCHANGED <<disk, up, tokens, overlapped, contested>>
    PROVE  DInv'
<1>1. /\ command' \in [Processes -> Commands]
      /\ command'[p] = Idle
      /\ \A q \in Processes \ {p} : command'[q] = command[q]
  BY EndsIdle DEF DInv
<1>2. Shape'
  BY <1>1, IdleCommand, QuietShape DEF DInv
<1>3. ~Owns(p)'
  BY <1>1, IdleCommand, NotOwning
<1> QED
  BY <1>1, <1>2, <1>3, QuietStep DEF DInv

LEMMA ReserveStep ==
    ASSUME DInv, NEW p \in Processes, Reserve(p)
    PROVE  DInv'
<1>1. Goto(p, "prepare") /\ "prepare" \in Stages /\ command[p].next = 1
  BY DEF Reserve, Stages, DInv, Shape
<1>2. /\ command' \in [Processes -> Commands]
      /\ command'[p].pc = "prepare" /\ command'[p].next = 1
      /\ \A q \in Processes \ {p} : command'[q] = command[q]
  BY <1>1, GoesTo DEF DInv
<1>3. UNCHANGED <<disk, up, tokens, overlapped, contested>>
  BY DEF Reserve
<1>4. Shape'
  BY <1>2, <1>3, QuietShape DEF DInv
<1> QED
  BY <1>2, <1>3, <1>4, NotOwning, QuietStep DEF DInv

LEMMA LoadStep ==
    ASSUME DInv, NEW p \in Processes, LoadHandle(p)
    PROVE  DInv'
<1> DEFINE s == Dir(p)["runtime-manifest.json"]
           new == [command[p] EXCEPT !.pc = "down", !.spec = s]
<1>1. s \in Specs
  BY RuntimeIdsOfSpecs DEF LoadHandle, Whole, Dir, Spec, DInv, WellSaid, Said, Shape, Commands
<1>2. command' = [command EXCEPT ![p] = new]
  BY DEF LoadHandle, DInv, Shape
<1>3. command[p] \in Commands /\ command[p].next = 1
  BY DEF LoadHandle, DInv, Shape
<1> HIDE DEF s
<1>4. new \in Commands /\ new.pc = "down" /\ new.next = 1
  BY <1>1, <1>3 DEF Commands, Stages
<1> HIDE DEF new
<1>5. /\ command' \in [Processes -> Commands]
      /\ command'[p] = new
      /\ \A q \in Processes \ {p} : command'[q] = command[q]
  BY <1>2, <1>4 DEF DInv, Shape
<1>6. UNCHANGED <<disk, up, tokens, overlapped, contested>>
  BY DEF LoadHandle, history
<1>7. Shape'
  BY <1>4, <1>5, <1>6, QuietShape DEF DInv
<1> QED
  BY <1>4, <1>5, <1>6, <1>7, NotOwning, QuietStep DEF DInv

-----------------------------------------------------------------------------
(* Containers come and go.                                                 *)

LEMMA UpStep ==
    ASSUME DInv, NEW p \in Processes, ComposeUp(p)
    PROVE  DInv'
<1>1. End(p) /\ UNCHANGED <<disk, tokens, contested>>
  BY DEF ComposeUp
<1>2. /\ command' \in [Processes -> Commands]
      /\ command'[p] = Idle
      /\ \A q \in Processes \ {p} : command'[q] = command[q]
  BY <1>1, EndsIdle DEF DInv
<1>3. Spec(p) \in Specs /\ Spec(p).runtime \in RuntimeIds /\ Spec(p).project \in Projects
  BY RuntimeIdsOfSpecs DEF DInv, Shape, Commands, Spec
<1>4. Containers(p) \in [runtime : RuntimeIds, port : Ports, token : Nat, project : Projects]
  <2>1. Dir(p)["compose.env"] \in Specs /\ Dir(p)["hydra-auth-token"] \in Nat
    BY <1>3 DEF ComposeUp, CanRun, Dir, DInv, WellSaid, Said
  <2>2. Dir(p)["compose.env"].port \in Ports /\ Dir(p)["compose.env"].project \in Projects
    BY <2>1, RuntimeIdsOfSpecs
  <2> QED
    BY <1>3, <2>1, <2>2 DEF Containers
<1>5. up' \in [Projects -> Project]
  BY <1>3, <1>4 DEF ComposeUp, DInv, Shape, Project
<1>6. overlapped' \in BOOLEAN
  BY DEF ComposeUp, DInv, Shape
<1>7. Shape'
  BY <1>1, <1>2, <1>5, <1>6, IdleCommand DEF DInv, Shape
<1>8. ~Owns(p)'
  BY <1>2, IdleCommand, NotOwning
<1> QED
  BY <1>1, <1>2, <1>7, <1>8, QuietStep DEF DInv

LEMMA DownStep ==
    ASSUME DInv, NEW p \in Processes, ComposeDown(p)
    PROVE  DInv'
<1>1. UNCHANGED <<disk, tokens, contested, overlapped>>
  BY DEF ComposeDown
<1>2. up' \in [Projects -> Project]
  BY DEF ComposeDown, DInv, Shape, Project
<1>3. command[p].next = 1
  BY DEF ComposeDown, DInv, Shape
<1>4. /\ command' \in [Processes -> Commands]
      /\ \A q \in Processes \ {p} : command'[q] = command[q]
      /\ command'[p].next = 1
  <2>1. CASE command[p].purge
    BY <1>3, <2>1, GoesTo DEF ComposeDown, DInv, Stages
  <2>2. CASE ~command[p].purge
    BY <2>2, EndsIdle, IdleCommand DEF ComposeDown, DInv
  <2> QED
    BY <2>1, <2>2
<1>5. Shape'
  BY <1>1, <1>2, <1>4 DEF DInv, Shape
<1> QED
  BY <1>1, <1>4, <1>5, NotOwning, QuietStep DEF DInv

-----------------------------------------------------------------------------
(* One file of a directory is written.                                     *)

\* The file that is written, and what becomes of the others.
LEMMA WriteEffect ==
    ASSUME DInv, NEW p \in Processes, WriteFile(p)
    PROVE  LET n == command[p].next
               d == Spec(p).runtime
               v == Content(p, FileOrder[n])
           IN  /\ n \in 1..7 /\ d \in RuntimeIds /\ Spec(p) \in Specs
               /\ disk' \in [RuntimeIds -> [Files -> Contents]]
               /\ disk'[d][FileOrder[n]] = v
               /\ n = 1 => v # None
               /\ n = 3 => v \in Nat
               /\ n \in {6, 7} => v = Spec(p)
               /\ \A f \in Files \ {FileOrder[n]} : disk'[d][f] = disk[d][f]
               /\ \A r \in RuntimeIds \ {d} : disk'[r] = disk[r]
<1> DEFINE n == command[p].next
           d == Spec(p).runtime
           v == Content(p, FileOrder[n])
<1>1. n \in 1..7 /\ Spec(p) \in Specs
  BY DEF DInv, Shape, Commands, Spec
<1>2. d \in RuntimeIds
  BY <1>1, RuntimeIdsOfSpecs
<1>3. /\ v \in Contents
      /\ n = 1 => v # None
      /\ n = 3 => v \in Nat
      /\ n \in {6, 7} => v = Spec(p)
  BY <1>1, <1>2, FileFacts, RuntimeAssumption DEF Content, Contents, DInv, Shape
<1>4. disk' = [disk EXCEPT ![d] = [disk[d] EXCEPT ![FileOrder[n]] = v]]
  BY <1>2 DEF WriteFile, DInv, Shape
<1> HIDE DEF v
<1>5. FileOrder[n] \in Files
  BY <1>1, FileFacts
<1>6. disk[d] \in [Files -> Contents]
  BY <1>2 DEF DInv, Shape
<1> HIDE DEF n, d
<1>7. /\ disk'[d] = [disk[d] EXCEPT ![FileOrder[n]] = v]
      /\ \A r \in RuntimeIds \ {d} : disk'[r] = disk[r]
      /\ disk' \in [RuntimeIds -> [Files -> Contents]]
  BY <1>2, <1>3, <1>4, <1>5, <1>6 DEF DInv, Shape
<1>8. /\ disk'[d][FileOrder[n]] = v
      /\ \A f \in Files \ {FileOrder[n]} : disk'[d][f] = disk[d][f]
  BY <1>5, <1>6, <1>7
<1> QED
  BY <1>1, <1>2, <1>3, <1>7, <1>8 DEF n, d, v

LEMMA WriteCommand ==
    ASSUME DInv, NEW p \in Processes, WriteFile(p)
    PROVE  /\ command' \in [Processes -> Commands]
           /\ \A q \in Processes \ {p} : command'[q] = command[q]
           /\ Spec(p)' = Spec(p)
           /\ command[p].pc = "prepare"
           /\ command[p].next = 7 => command'[p].pc = "up" /\ command'[p].next = 1
           /\ command[p].next < 7 => /\ command'[p].pc = "prepare"
                                     /\ command'[p].next = command[p].next + 1
<1> DEFINE c == command[p]
           pc == IF c.next = Len(FileOrder) THEN "up" ELSE "prepare"
           n == IF c.next = Len(FileOrder) THEN 1 ELSE c.next + 1
           new == [c EXCEPT !.pc = pc, !.next = n]
<1>1. c \in Commands /\ c.pc = "prepare"
  BY DEF DInv, Shape, WriteFile
<1>2. command' = [command EXCEPT ![p] = new]
  BY DEF WriteFile, DInv, Shape
<1> HIDE DEF c
<1>3. c.next \in 1..7
  BY <1>1 DEF Commands
<1>4. /\ pc \in Stages /\ n \in 1..7
      /\ c.next = 7 => pc = "up" /\ n = 1
      /\ c.next < 7 => pc = "prepare" /\ n = c.next + 1
  BY <1>3, FileFacts DEF Stages
<1> HIDE DEF pc, n
<1>5. new \in Commands /\ new.pc = pc /\ new.next = n /\ new.spec = c.spec
  BY <1>1, <1>4 DEF Commands
<1> HIDE DEF new
<1>6. /\ command'[p] = new
      /\ command' \in [Processes -> Commands]
      /\ \A q \in Processes \ {p} : command'[q] = command[q]
  BY <1>2, <1>5 DEF DInv, Shape
<1> QED
  BY <1>1, <1>4, <1>5, <1>6 DEF Spec, c

\* In an uncontested directory the file that is written is not there yet.
LEMMA WriteIsNew ==
    ASSUME DInv, ~contested, NEW p \in Processes, WriteFile(p)
    PROVE  /\ Dir(p)[FileOrder[command[p].next]] = None
           /\ \A q \in Processes \ {p} : Owns(q) => Spec(q).runtime # Spec(p).runtime
<1>1. command[p].next \in 1..7
  BY WriteEffect
<1>2. CASE command[p].next = 1
  <2>1. Dir(p)["dir"] = None
    BY <1>2 DEF WriteFile, MayWrite
  <2>2. \A q \in Processes : Owns(q) => Dir(q)["dir"] # None
    BY DEF DInv, Ownership, DirHeld
  <2> QED
    BY <1>2, <2>1, <2>2, FileFacts DEF Dir
<1>3. CASE command[p].next > 1
  <2>1. Writing(p) /\ Owns(p)
    BY <1>3 DEF WriteFile, Writing, Owns
  <2>2. Dir(p)[FileOrder[command[p].next]] = None
    BY <1>1, <2>1 DEF DInv, Ownership, Unwritten
  <2> QED
    BY <2>1, <2>2 DEF DInv, Ownership, OneOwner
<1> QED
  BY <1>1, <1>2, <1>3

LEMMA WriteStep ==
    ASSUME DInv, NEW p \in Processes, WriteFile(p)
    PROVE  DInv'
<1> DEFINE n == command[p].next
           d == Spec(p).runtime
<1>1. /\ n \in 1..7 /\ d \in RuntimeIds /\ Spec(p) \in Specs
      /\ disk' \in [RuntimeIds -> [Files -> Contents]]
      /\ n = 1 => disk'[d][FileOrder[n]] # None
      /\ n = 3 => disk'[d][FileOrder[n]] \in Nat
      /\ n \in {6, 7} => disk'[d][FileOrder[n]] = Spec(p)
      /\ \A f \in Files \ {FileOrder[n]} : disk'[d][f] = disk[d][f]
      /\ \A r \in RuntimeIds \ {d} : disk'[r] = disk[r]
  BY WriteEffect
<1>2. /\ command' \in [Processes -> Commands]
      /\ \A q \in Processes \ {p} : command'[q] = command[q] /\ Spec(q)' = Spec(q)
      /\ Spec(p)' = Spec(p)
      /\ command[p].pc = "prepare"
      /\ n = 7 => command'[p].pc = "up" /\ command'[p].next = 1
      /\ n < 7 => command'[p].pc = "prepare" /\ command'[p].next = n + 1
  BY WriteCommand DEF Spec
<1>3. UNCHANGED <<up, overlapped, contested>>
  BY DEF WriteFile, history
<1>4. Shape'
  <2>1. tokens' \in Nat
    <3>1. tokens' = tokens \/ tokens' = tokens + 1
      BY DEF WriteFile
    <3> QED
      BY <3>1 DEF DInv, Shape
  <2>2. /\ command'[p].pc \notin {"prepare", "purge"} => command'[p].next = 1
        /\ command'[p].pc # "purge"
    BY <1>1, <1>2
  <2> QED
    BY <1>1, <1>2, <1>3, <2>1, <2>2 DEF DInv, Shape
<1>5. WellSaid'
  <2> SUFFICES ASSUME NEW r \in RuntimeIds PROVE Said(r)'
    BY DEF WellSaid
  <2>1. CASE r # d
    BY <1>1, <2>1 DEF DInv, WellSaid, Said
  <2>2. CASE r = d
    BY <1>1, <2>2, FileFacts DEF DInv, WellSaid, Said
  <2> QED
    BY <2>1, <2>2
<1>6. ASSUME ~contested  PROVE OneOwner' /\ DirHeld' /\ Unwritten' /\ Empty'
  <2>1. /\ disk[d][FileOrder[n]] = None
        /\ \A q \in Processes \ {p} : Owns(q) => Spec(q).runtime # d
    BY <1>6, WriteIsNew DEF Dir
  <2>2. OneOwner /\ DirHeld /\ Unwritten /\ Empty
    BY <1>6 DEF DInv, Ownership
  <2>3. \A q \in Processes \ {p} : /\ Owns(q)' => Owns(q)
                                   /\ Writing(q)' => Writing(q)
                                   /\ Owns(q)' => Dir(q)' = Dir(q)
    <3>1. \A q \in Processes \ {p} : (Owns(q)' => Owns(q)) /\ (Writing(q)' => Writing(q))
      BY <1>2 DEF Owns, Writing, Purging
    <3>2. ASSUME NEW q \in Processes \ {p}, Owns(q)'  PROVE Dir(q)' = Dir(q)
      <4>1. Spec(q).runtime # d /\ Spec(q).runtime \in RuntimeIds
        BY <2>1, <3>1, <3>2, RuntimeIdsOfSpecs DEF DInv, Shape, Commands, Spec
      <4> QED
        BY <1>1, <1>2, <4>1 DEF Dir
    <3> QED
      BY <3>1, <3>2
  <2>4. OneOwner'
    BY <1>2, <2>1, <2>2, <2>3 DEF OneOwner
  <2>5. Dir(p)'["dir"] # None
    <3>1. CASE n = 1
      BY <1>1, <1>2, <3>1, FileFacts DEF Dir
    <3>2. CASE n > 1
      <4>1. Dir(p)["dir"] # None
        BY <3>2 DEF WriteFile, MayWrite
      <4> QED
        BY <1>1, <1>2, <3>2, <4>1, FileFacts DEF Dir
    <3> QED
      BY <1>1, <3>1, <3>2
  <2>6. DirHeld'
    BY <2>2, <2>3, <2>5 DEF DirHeld
  <2>7. Unwritten'
    <3> SUFFICES ASSUME NEW q \in Processes, Writing(q)',
                        NEW i \in 1..7, command'[q].next <= i
                 PROVE  Dir(q)'[FileOrder[i]] = None
      BY DEF Unwritten
    <3>1. CASE q # p
      <4>1. Owns(q)' /\ Writing(q) /\ Dir(q)' = Dir(q) /\ command'[q] = command[q]
        BY <1>2, <2>3, <3>1 DEF Owns
      <4> QED
        BY <2>2, <4>1 DEF Unwritten
    <3>2. CASE q = p
      <4>1. n < 7 /\ command'[p].next = n + 1
        BY <1>1, <1>2, <3>2 DEF Writing
      <4>2. i # n /\ n <= i /\ FileOrder[i] # FileOrder[n] /\ FileOrder[i] \in Files
        BY <1>1, <3>2, <4>1, FileFacts
      <4>3. Dir(p)[FileOrder[i]] = None
        <5>1. CASE n = 1
          BY <2>1, <2>2, <4>2, <5>1, <1>1, FileFacts DEF Empty, Dir
        <5>2. CASE n > 1
          BY <1>2, <2>2, <4>2, <5>2 DEF Unwritten, Writing
        <5> QED
          BY <1>1, <5>1, <5>2
      <4> QED
        BY <1>1, <1>2, <3>2, <4>2, <4>3 DEF Dir
    <3> QED
      BY <3>1, <3>2
  <2>8. Empty'
    <3> SUFFICES ASSUME NEW r \in RuntimeIds, disk'[r]["dir"] = None, NEW f \in Files
                 PROVE  disk'[r][f] = None
      BY DEF Empty
    <3>1. r # d
      BY <2>5, <1>2 DEF Dir
    <3> QED
      BY <1>1, <2>2, <3>1 DEF Empty
  <2> QED
    BY <2>4, <2>6, <2>7, <2>8
<1> QED
  BY <1>3, <1>4, <1>5, <1>6 DEF DInv, Ownership

-----------------------------------------------------------------------------
(* One file of a directory is deleted.                                     *)

\* The first file goes only after the manifest has been seen, and a
\* directory whose manifest is there is nobody's who writes.
LEMMA PurgeAlone ==
    ASSUME DInv, ~contested', NEW p \in Processes, Purge(p)
    PROVE  /\ ~contested
           /\ \A q \in Processes \ {p} : Owns(q) => Spec(q).runtime # Spec(p).runtime
<1>1. ~contested /\ \A q \in Processes \ {p} : ~Deleting(q, Spec(p).runtime)
  BY DEF Purge
<1>2. command[p] \in Commands /\ command[p].pc = "purge"
  BY DEF DInv, Shape, Purge
<1> SUFFICES ASSUME NEW q \in Processes \ {p}, Owns(q), Spec(q).runtime = Spec(p).runtime
             PROVE  FALSE
  BY <1>1
<1>3. Writing(q)
  BY <1>1 DEF Owns, Purging, Deleting
<1>4. CASE Owns(p)
  BY <1>1, <1>4 DEF DInv, Ownership, OneOwner
<1>5. CASE ~Owns(p)
  <2>1. CASE command[p].next = 1
    <3>1. disk[Spec(p).runtime]["runtime-manifest.json"] # None
      BY <2>1 DEF Purge, Verified, Whole, Dir
    <3>2. command[q].next \in 1..7
      BY DEF DInv, Shape, Commands
    <3>3. Dir(q)[FileOrder[7]] = None /\ FileOrder[7] = "runtime-manifest.json"
      BY <1>1, <1>3, <3>2, FileFacts DEF DInv, Ownership, Unwritten
    <3> QED
      BY <3>1, <3>3 DEF Dir
  <2>2. CASE command[p].next # 1
    BY <1>2, <1>5, <2>2 DEF Owns, Purging, DInv, Shape
  <2> QED
    BY <2>1, <2>2
<1> QED
  BY <1>4, <1>5

LEMMA PurgeEffect ==
    ASSUME DInv, NEW p \in Processes, Purge(p)
    PROVE  LET d == Spec(p).runtime
           IN  /\ d \in RuntimeIds
               /\ disk' \in [RuntimeIds -> [Files -> Contents]]
               /\ \A r \in RuntimeIds \ {d} : disk'[r] = disk[r]
               /\ \A f \in Files : disk'[d][f] \in {disk[d][f], None}
               /\ \E f \in Files : disk[d][f] # None
               /\ \/ /\ disk'[d]["dir"] = disk[d]["dir"]
                     /\ command' = [command EXCEPT ![p].next = 2]
                  \/ (\A f \in Files : disk'[d][f] = None) /\ End(p)
<1> DEFINE d == Spec(p).runtime
<1>1. d \in RuntimeIds
  BY RuntimeIdsOfSpecs DEF DInv, Shape, Commands, Spec
<1>2. PICK f \in Files :
         /\ disk[d][f] # None
         /\ f = "dir" => \A g \in Files \ {f} : disk[d][g] = None
         /\ disk' = [disk EXCEPT ![d][f] = None]
         /\ IF f = "dir" THEN End(p)
            ELSE /\ command' = [command EXCEPT ![p].next = 2]
                 /\ UNCHANGED <<reserved, prepared>>
  BY DEF Purge, Dir
<1>3. disk[d] \in [Files -> Contents] /\ None \in Contents
  BY <1>1 DEF DInv, Shape, Contents
<1> HIDE DEF d
<1>4. /\ disk'[d] = [disk[d] EXCEPT ![f] = None]
      /\ \A r \in RuntimeIds \ {d} : disk'[r] = disk[r]
      /\ disk' \in [RuntimeIds -> [Files -> Contents]]
  BY <1>1, <1>2, <1>3 DEF DInv, Shape
<1>5. /\ disk'[d][f] = None
      /\ \A g \in Files \ {f} : disk'[d][g] = disk[d][g]
  BY <1>3, <1>4
<1>6. CASE f = "dir"
  BY <1>1, <1>2, <1>4, <1>5, <1>6 DEF d
<1>7. CASE f # "dir"
  BY <1>1, <1>2, <1>4, <1>5, <1>7, FileFacts DEF d
<1> QED
  BY <1>6, <1>7

LEMMA PurgeStep ==
    ASSUME DInv, NEW p \in Processes, Purge(p)
    PROVE  DInv'
<1> DEFINE d == Spec(p).runtime
<1>1. /\ d \in RuntimeIds
      /\ disk' \in [RuntimeIds -> [Files -> Contents]]
      /\ \A r \in RuntimeIds \ {d} : disk'[r] = disk[r]
      /\ \A f \in Files : disk'[d][f] \in {disk[d][f], None}
      /\ \E f \in Files : disk[d][f] # None
      /\ \/ /\ disk'[d]["dir"] = disk[d]["dir"]
            /\ command' = [command EXCEPT ![p].next = 2]
         \/ (\A f \in Files : disk'[d][f] = None) /\ End(p)
  BY PurgeEffect
<1>2. /\ command' \in [Processes -> Commands]
      /\ \A q \in Processes \ {p} : command'[q] = command[q] /\ Spec(q)' = Spec(q)
      /\ \/ /\ disk'[d]["dir"] = disk[d]["dir"]
            /\ command'[p].pc = "purge" /\ command'[p].next = 2 /\ Spec(p)' = Spec(p)
         \/ (\A f \in Files : disk'[d][f] = None) /\ command'[p] = Idle
  <2>1. CASE disk'[d]["dir"] = disk[d]["dir"] /\ command' = [command EXCEPT ![p].next = 2]
    <3>1. command[p] \in Commands /\ command[p].pc = "purge"
      BY DEF DInv, Shape, Purge
    <3>2. command' = [command EXCEPT ![p] = [command[p] EXCEPT !.next = 2]]
      BY <2>1 DEF DInv, Shape
    <3>3. [command[p] EXCEPT !.next = 2] \in Commands
      BY <3>1 DEF Commands
    <3> QED
      BY <2>1, <3>1, <3>2, <3>3 DEF DInv, Shape, Commands, Spec
  <2>2. CASE (\A f \in Files : disk'[d][f] = None) /\ End(p)
    BY <2>2, EndsIdle DEF DInv, Spec
  <2> QED
    BY <1>1, <2>1, <2>2
<1>3. UNCHANGED <<up, tokens, overlapped>> /\ contested' \in BOOLEAN
  BY DEF Purge
<1>4. Shape'
  <2>1. /\ command'[p].pc \notin {"prepare", "purge"} => command'[p].next = 1
        /\ command'[p].pc = "purge" => command'[p].next \in {1, 2}
    BY <1>2, IdleCommand
  <2> QED
    BY <1>1, <1>2, <1>3, <2>1 DEF DInv, Shape
<1>5. WellSaid'
  <2> SUFFICES ASSUME NEW r \in RuntimeIds PROVE Said(r)'
    BY DEF WellSaid
  <2>1. CASE r # d
    BY <1>1, <2>1 DEF DInv, WellSaid, Said
  <2>2. CASE r = d
    BY <1>1, <2>2, FileFacts DEF DInv, WellSaid, Said
  <2> QED
    BY <2>1, <2>2
<1>6. ASSUME ~contested'  PROVE OneOwner' /\ DirHeld' /\ Unwritten' /\ Empty'
  <2>1. \A q \in Processes \ {p} : Owns(q) => Spec(q).runtime # d
    BY <1>6, PurgeAlone
  <2>2. OneOwner /\ DirHeld /\ Unwritten /\ Empty
    BY <1>6, PurgeAlone DEF DInv, Ownership
  <2>3. disk[d]["dir"] # None
    BY <1>1, <2>2 DEF Empty
  <2>4. \A q \in Processes \ {p} : /\ Owns(q)' => Owns(q)
                                   /\ Writing(q)' => Writing(q)
                                   /\ Owns(q)' => Dir(q)' = Dir(q)
    <3>1. \A q \in Processes \ {p} : (Owns(q)' => Owns(q)) /\ (Writing(q)' => Writing(q))
      BY <1>2 DEF Owns, Writing, Purging
    <3>2. ASSUME NEW q \in Processes \ {p}, Owns(q)'  PROVE Dir(q)' = Dir(q)
      <4>1. Spec(q).runtime # d /\ Spec(q).runtime \in RuntimeIds
        BY <2>1, <3>1, <3>2, RuntimeIdsOfSpecs DEF DInv, Shape, Commands, Spec
      <4> QED
        BY <1>1, <1>2, <4>1 DEF Dir
    <3> QED
      BY <3>1, <3>2
  <2>5. Owns(p)' => Spec(p)' = Spec(p) /\ Dir(p)'["dir"] # None /\ ~Writing(p)'
    BY <1>2, <2>3, IdleCommand DEF Owns, Writing, Purging, Dir
  <2>6. ~Writing(p)'
    BY <1>2, IdleCommand DEF Writing
  <2>7. OneOwner'
    BY <1>2, <2>1, <2>2, <2>4, <2>5 DEF OneOwner
  <2>8. DirHeld'
    BY <2>2, <2>4, <2>5 DEF DirHeld
  <2>9. Unwritten'
    <3> SUFFICES ASSUME NEW q \in Processes, Writing(q)',
                        NEW i \in 1..7, command'[q].next <= i
                 PROVE  Dir(q)'[FileOrder[i]] = None
      BY DEF Unwritten
    <3>1. q # p
      BY <2>6
    <3>2. Owns(q)' /\ Writing(q) /\ Dir(q)' = Dir(q) /\ command'[q] = command[q]
      BY <1>2, <2>4, <3>1 DEF Owns
    <3> QED
      BY <2>2, <3>2 DEF Unwritten
  <2>10. Empty'
    <3> SUFFICES ASSUME NEW r \in RuntimeIds, disk'[r]["dir"] = None, NEW f \in Files
                 PROVE  disk'[r][f] = None
      BY DEF Empty
    <3>1. CASE r # d
      BY <1>1, <2>2, <3>1 DEF Empty
    <3>2. CASE r = d
      BY <1>2, <2>3, <3>2
    <3> QED
      BY <3>1, <3>2
  <2> QED
    BY <2>7, <2>8, <2>9, <2>10
<1> QED
  BY <1>4, <1>5, <1>6 DEF DInv, Ownership

LEMMA DieStep ==
    ASSUME DInv, NEW p \in Processes, Die(p)
    PROVE  DInv'
<1>1. /\ command' \in [Processes -> Commands]
      /\ command'[p] = Idle
      /\ \A q \in Processes \ {p} : command'[q] = command[q]
  BY IdleCommand DEF DInv, Shape, Die
<1>2. UNCHANGED <<disk, up, tokens, overlapped, contested>>
  BY DEF Die
<1>3. Shape'
  BY <1>1, <1>2, IdleCommand, QuietShape DEF DInv
<1>4. ~Owns(p)'
  BY <1>1, IdleCommand, NotOwning
<1> QED
  BY <1>1, <1>2, <1>3, <1>4, QuietStep DEF DInv

LEMMA DInvInit == Init => DInv
<1> SUFFICES ASSUME Init PROVE DInv
  OBVIOUS
<1>1. Shape
  BY IdleCommand DEF Init, Shape, NoDirectory, Contents, Project
<1>2. WellSaid
  BY FileFacts DEF Init, WellSaid, Said, NoDirectory
<1>3. \A p \in Processes : ~Owns(p) /\ ~Writing(p)
  BY IdleCommand DEF Init, Owns, Writing, Purging
<1>4. Empty
  BY DEF Init, Empty, NoDirectory
<1> QED
  BY <1>1, <1>2, <1>3, <1>4 DEF DInv, Ownership, OneOwner, DirHeld, Unwritten

LEMMA DInvStep == DInv /\ [Next]_vars => DInv'
<1> SUFFICES ASSUME DInv, [Next]_vars PROVE DInv'
  OBVIOUS
<1>1. CASE UNCHANGED vars
  <2>1. UNCHANGED <<disk, up, command, tokens, overlapped, contested>>
    BY <1>1 DEF vars, history
  <2> QED
    BY <2>1 DEF DInv, Shape, WellSaid, Said, Ownership, OneOwner, DirHeld, Unwritten, Empty,
                Owns, Writing, Purging, Spec, Dir
<1>2. ASSUME NEW p \in Processes, Begin(p)  PROVE DInv'
  <2>1. PICK spec \in Specs :
           \/ Start(p, spec) \/ Setup(p, spec)
           \/ \E purge \in BOOLEAN : Stop(p, spec, purge)
    BY <1>2 DEF Begin
  <2> QED
    BY <2>1, GiveStep DEF Start, Setup, Stop
<1>3. ASSUME NEW p \in Processes, Continue(p)  PROVE DInv'
  <2>1. CASE RefuseReservation(p) \/ PrepareFails(p) \/ ComposeUpFails(p)
             \/ StopFails(p) \/ PurgeFails(p)
    <3>1. End(p) /\ UNCHANGED <<disk, up, tokens, overlapped, contested>>
      BY <2>1 DEF RefuseReservation, PrepareFails, ComposeUpFails, StopFails, PurgeFails
    <3> QED
      BY <3>1, EndStep
  <2> QED
    BY <1>3, <2>1, ReserveStep, WriteStep, UpStep, LoadStep, DownStep, PurgeStep DEF Continue
<1>4. ASSUME NEW p \in Processes, Die(p)  PROVE DInv'
  BY <1>4, DieStep
<1> QED
  BY <1>1, <1>2, <1>3, <1>4 DEF Next

\* Directories, commands and containers keep their shapes and each directory
\* its one owner, for any processes, specs and number of commands.
THEOREM DirectoriesOwned == RuntimeSpec => []DInv
  BY DInvInit, DInvStep, PTL DEF RuntimeSpec

LEMMA WritesOnce ==
    ASSUME DInv, ~contested, [Next]_vars, NEW r \in RuntimeIds, NEW f \in Files,
           disk'[r][f] # disk[r][f]
    PROVE  None \in {disk[r][f], disk'[r][f]}
<1>1. PICK p \in Processes : WriteFile(p) \/ Purge(p)
  BY DEF vars, Next, Begin, Start, Setup, Stop, Give, Continue, Reserve, RefuseReservation,
         PrepareFails, ComposeUp, ComposeUpFails, LoadHandle, StopFails, ComposeDown,
         PurgeFails, Die
<1>2. CASE WriteFile(p)
  <2>1. r = Spec(p).runtime /\ f = FileOrder[command[p].next]
    BY <1>2, WriteEffect
  <2> QED
    BY <1>2, <2>1, WriteIsNew DEF Dir
<1>3. CASE Purge(p)
  BY <1>3, PurgeEffect
<1> QED
  BY <1>1, <1>2, <1>3

\* A file of a runtime's directory is written once and then only deleted, for
\* any processes, specs and number of commands, unless two stops purge one
\* directory at a time.
THEOREM EachFileOnce == RuntimeSpec => FilesWrittenOnce
<1>1. DInv /\ [Next]_vars =>
          [~contested => \A r \in RuntimeIds, f \in Files :
              disk'[r][f] # disk[r][f] => None \in {disk[r][f], disk'[r][f]}]_disk
  BY WritesOnce
<1> QED
  BY <1>1, DirectoriesOwned, PTL DEF RuntimeSpec, FilesWrittenOnce

-----------------------------------------------------------------------------
(* Reservations.                                                           *)

Reserved(m, s) ==
    /\ s.project \in DOMAIN m.projects /\ m.projects[s.project] = s.runtime
    /\ s.graph \in DOMAIN m.graphs /\ m.graphs[s.graph] = s.runtime

\* Whatever a manager has prepared it still holds reserved.
RInv ==
    /\ DOMAIN reserved = Processes
    /\ DOMAIN prepared = Processes
    /\ \A p \in Processes : \A s \in prepared[p] : Reserved(reserved[p], s)

LEMMA PutKeeps ==
    ASSUME NEW f, NEW k, NEW v, NEW g, g = Put(f, k, v), Owned(f, k, v)
    PROVE  /\ k \in DOMAIN g /\ g[k] = v
           /\ \A x \in DOMAIN f : x \in DOMAIN g /\ g[x] = f[x]
BY DEF Put, Owned

LEMMA RInvStep == RInv /\ [Next]_vars => RInv'
<1> SUFFICES ASSUME RInv, [Next]_vars PROVE RInv'
  OBVIOUS
<1>1. CASE UNCHANGED <<reserved, prepared>>
  BY <1>1 DEF RInv
<1>2. ASSUME NEW p \in Processes, Reserve(p)  PROVE RInv'
  <2> DEFINE m == reserved[p]
             m2 == [projects |-> Put(m.projects, Spec(p).project, Spec(p).runtime),
                    graphs |-> Put(m.graphs, Spec(p).graph, Spec(p).runtime)]
  <2>1. /\ reserved' = [reserved EXCEPT ![p] = m2]
        /\ prepared' = [prepared EXCEPT ![p] = @ \union {Spec(p)}]
        /\ Reservable(m, Spec(p))
    BY <1>2 DEF Reserve
  <2>2. /\ m2.projects = Put(m.projects, Spec(p).project, Spec(p).runtime)
        /\ m2.graphs = Put(m.graphs, Spec(p).graph, Spec(p).runtime)
    OBVIOUS
  <2> HIDE DEF m2, m
  <2>3. /\ Spec(p).project \in DOMAIN m2.projects
        /\ m2.projects[Spec(p).project] = Spec(p).runtime
        /\ \A x \in DOMAIN m.projects : x \in DOMAIN m2.projects /\ m2.projects[x] = m.projects[x]
    BY <2>1, <2>2, PutKeeps DEF Reservable
  <2>4. /\ Spec(p).graph \in DOMAIN m2.graphs
        /\ m2.graphs[Spec(p).graph] = Spec(p).runtime
        /\ \A x \in DOMAIN m.graphs : x \in DOMAIN m2.graphs /\ m2.graphs[x] = m.graphs[x]
    BY <2>1, <2>2, PutKeeps DEF Reservable
  <2>5. Reserved(m2, Spec(p))
    BY <2>3, <2>4 DEF Reserved
  <2>6. \A s \in prepared[p] : Reserved(m2, s)
    BY <2>3, <2>4 DEF Reserved, RInv, m
  <2> QED
    BY <2>1, <2>5, <2>6 DEF RInv
<1>3. ASSUME NEW p \in Processes,
             \/ End(p)
             \/ /\ reserved' = [reserved EXCEPT ![p] = NoReservations]
                /\ prepared' = [prepared EXCEPT ![p] = {}]
      PROVE  RInv'
  BY <1>3 DEF RInv, End
<1>4. ASSUME NEW p \in Processes, Begin(p)  PROVE UNCHANGED <<reserved, prepared>>
  BY <1>4 DEF Begin, Start, Setup, Stop, Give, history
<1>5. ASSUME NEW p \in Processes, Continue(p)
      PROVE  Reserve(p) \/ End(p) \/ UNCHANGED <<reserved, prepared>>
  BY <1>5 DEF Continue, RefuseReservation, WriteFile, PrepareFails, ComposeUp,
              ComposeUpFails, LoadHandle, StopFails, ComposeDown, Purge, PurgeFails, history
<1>6. ASSUME NEW p \in Processes, Die(p)  PROVE RInv'
  BY <1>3, <1>6 DEF Die
<1>7. CASE UNCHANGED vars
  BY <1>1, <1>7 DEF vars, history
<1> QED
  BY <1>1, <1>2, <1>3, <1>4, <1>5, <1>6, <1>7 DEF Next

\* Two runtimes that one manager has prepared share neither a compose project
\* nor the object state of a graph, for any specs and number of commands.
THEOREM ManagerNeverAliases == RuntimeSpec => []NoAliasInManager
<1>1. Init => RInv
  BY DEF Init, RInv
<1>2. RInv => NoAliasInManager
  BY DEF RInv, Reserved, NoAliasInManager
<1> QED
  BY <1>1, <1>2, RInvStep, PTL DEF RuntimeSpec

-----------------------------------------------------------------------------
(* The environment and the manifest of a directory are one writer's.       *)

Token == "hydra-auth-token"

Env == "compose.env"

Manifest == "runtime-manifest.json"

SameWriter(r) == disk[r][Env] # None /\ disk[r][Manifest] # None => disk[r][Env] = disk[r][Manifest]

Matched ==
    /\ \A r \in RuntimeIds : SameWriter(r)
    /\ \A p \in Processes : Writing(p) /\ command[p].next = 7 => Dir(p)[Env] = Spec(p)

MInv == ~contested => Matched

LEMMA NamedFiles ==
    /\ Token \in Files /\ Env \in Files /\ Manifest \in Files
    /\ Token # Env /\ Token # Manifest /\ Env # Manifest
    /\ \A i \in 1..7 : /\ FileOrder[i] = Token <=> i = 3
                       /\ FileOrder[i] = Env <=> i = 6
                       /\ FileOrder[i] = Manifest <=> i = 7
BY FileFacts DEF Token, Env, Manifest

\* Directories stay, and nobody has come to write a manifest.
LEMMA MatchedQuiet ==
    ASSUME MInv, UNCHANGED <<disk, contested>>,
           \A q \in Processes : Writing(q)' /\ command'[q].next = 7 => command'[q] = command[q]
    PROVE  MInv'
BY DEF MInv, Matched, SameWriter, Writing, Dir, Spec

LEMMA MatchedWrite ==
    ASSUME DInv, MInv, NEW p \in Processes, WriteFile(p)
    PROVE  MInv'
<1> DEFINE d == Spec(p).runtime
           n == command[p].next
<1> SUFFICES ASSUME ~contested PROVE Matched'
  BY DEF MInv, WriteFile, history
<1>1. /\ n \in 1..7 /\ d \in RuntimeIds
      /\ n \in {6, 7} => disk'[d][FileOrder[n]] = Spec(p)
      /\ \A f \in Files \ {FileOrder[n]} : disk'[d][f] = disk[d][f]
      /\ \A r \in RuntimeIds \ {d} : disk'[r] = disk[r]
  BY WriteEffect
<1>2. /\ \A q \in Processes \ {p} : command'[q] = command[q] /\ Spec(q)' = Spec(q)
      /\ Spec(p)' = Spec(p)
      /\ command[p].pc = "prepare"
      /\ n = 7 => command'[p].pc = "up"
      /\ n < 7 => command'[p].pc = "prepare" /\ command'[p].next = n + 1
  BY WriteCommand DEF Spec
<1>3. \A q \in Processes \ {p} : Owns(q) => Spec(q).runtime # d
  BY WriteIsNew
<1>4. Matched
  BY DEF MInv
<1>5. n = 6 => disk[d][Manifest] = None
  BY <1>2, NamedFiles DEF DInv, Ownership, Unwritten, Writing, Dir
<1>6. n = 7 => disk[d][Env] = Spec(p)
  BY <1>2, <1>4 DEF Matched, Writing, Dir
<1> HIDE DEF n, d
<1>7. ASSUME NEW r \in RuntimeIds  PROVE SameWriter(r)'
  <2>1. CASE r # d
    BY <1>1, <1>4, <2>1 DEF Matched, SameWriter
  <2>2. CASE r = d /\ n \notin {6, 7}
    BY <1>1, <1>4, <2>2, NamedFiles DEF Matched, SameWriter
  <2>3. CASE r = d /\ n = 6
    BY <1>1, <1>5, <2>3, NamedFiles DEF SameWriter
  <2>4. CASE r = d /\ n = 7
    BY <1>1, <1>6, <2>4, NamedFiles DEF SameWriter
  <2> QED
    BY <2>1, <2>2, <2>3, <2>4
<1>8. ASSUME NEW q \in Processes, Writing(q)', command'[q].next = 7
      PROVE  Dir(q)'[Env] = Spec(q)'
  <2>1. CASE q = p
    <3>1. n = 6
      BY <1>1, <1>2, <1>8, <2>1 DEF Writing
    <3>2. disk'[d][Env] = Spec(p)
      BY <1>1, <3>1, NamedFiles
    <3> QED
      BY <1>2, <2>1, <3>2 DEF Dir, d
  <2>2. CASE q # p
    <3>1. Writing(q) /\ command[q].next = 7 /\ Spec(q)' = Spec(q)
      BY <1>2, <1>8, <2>2 DEF Writing
    <3>2. Spec(q).runtime \in RuntimeIds \ {d}
      BY <1>3, <2>2, <3>1, RuntimeIdsOfSpecs DEF Owns, DInv, Shape, Commands, Spec
    <3> QED
      BY <1>1, <1>4, <3>1, <3>2 DEF Matched, Dir
  <2> QED
    BY <2>1, <2>2
<1> QED
  BY <1>7, <1>8 DEF Matched

LEMMA MatchedPurge ==
    ASSUME DInv, MInv, NEW p \in Processes, Purge(p)
    PROVE  MInv'
<1> DEFINE d == Spec(p).runtime
<1> SUFFICES ASSUME ~contested' PROVE Matched'
  BY DEF MInv
<1>1. /\ d \in RuntimeIds
      /\ \A r \in RuntimeIds \ {d} : disk'[r] = disk[r]
      /\ \A f \in Files : disk'[d][f] \in {disk[d][f], None}
      /\ \/ command' = [command EXCEPT ![p].next = 2]
         \/ End(p)
  BY PurgeEffect
<1>2. Matched /\ \A q \in Processes \ {p} : Owns(q) => Spec(q).runtime # d
  BY PurgeAlone DEF MInv
<1>3. /\ \A q \in Processes \ {p} : command'[q] = command[q]
      /\ ~Writing(p)'
  <2>1. CASE End(p)
    BY <2>1, EndsIdle, IdleCommand DEF DInv, Writing
  <2>2. CASE command' = [command EXCEPT ![p].next = 2]
    BY <2>2 DEF Purge, Writing, DInv, Shape, Commands
  <2> QED
    BY <1>1, <2>1, <2>2
<1> HIDE DEF d
<1>4. ASSUME NEW r \in RuntimeIds  PROVE SameWriter(r)'
  <2>1. CASE r # d
    BY <1>1, <1>2, <2>1 DEF Matched, SameWriter
  <2>2. CASE r = d
    BY <1>1, <1>2, <2>2, NamedFiles DEF Matched, SameWriter
  <2> QED
    BY <2>1, <2>2
<1>5. ASSUME NEW q \in Processes, Writing(q)', command'[q].next = 7
      PROVE  Dir(q)'[Env] = Spec(q)'
  <2>1. q # p /\ Writing(q) /\ command[q].next = 7 /\ Spec(q)' = Spec(q)
    BY <1>3, <1>5 DEF Writing, Spec
  <2>2. Spec(q).runtime \in RuntimeIds \ {d}
    BY <1>2, <2>1, RuntimeIdsOfSpecs DEF Owns, DInv, Shape, Commands, Spec
  <2> QED
    BY <1>1, <1>2, <2>1, <2>2 DEF Matched, Dir
<1> QED
  BY <1>4, <1>5 DEF Matched

-----------------------------------------------------------------------------
(* Running containers and their token.                                     *)

\* Containers of a project that their environment names: a stop, which takes
\* the project from the manifest, finds them.
Proper(q) == up[q] # None /\ up[q].project = q

Started == \A q \in Projects : up[q] # None => up[q].token # None

\* They find the token, their environment still names the project, nobody
\* purges what they run from and a stop is about to take them down.
Tended(q, r) ==
    /\ disk[r][Token] = up[q].token
    /\ disk[r][Env] # None /\ disk[r][Env].project = q
    /\ \A p \in Processes : Spec(p).runtime = r =>
          /\ command[p].pc # "purge"
          /\ command[p].pc = "down" => Spec(p).project = q

Kempt == \A q \in Projects : Proper(q) => Tended(q, up[q].runtime)

TInv == MInv /\ Started /\ (~overlapped /\ ~contested => Kempt)

\* Neither a directory nor a container changes, and nobody begins a stop.
LEMMA TokenQuiet ==
    ASSUME TInv, UNCHANGED <<disk, up, overlapped, contested>>,
           \A q \in Processes : command'[q].pc \in {"prepare", "down", "purge"} =>
               \/ command'[q] = command[q]
               \/ command'[q].pc = "prepare" /\ command'[q].next = 1
    PROVE  TInv'
<1>1. MInv'
  BY MatchedQuiet DEF TInv, Writing
<1>2. ASSUME Kempt  PROVE Kempt'
  BY <1>2 DEF Kempt, Tended, Proper, Spec
<1> QED
  BY <1>1, <1>2 DEF TInv, Started

LEMMA TokenLoad ==
    ASSUME DInv, TInv, NEW p \in Processes, LoadHandle(p)
    PROVE  TInv'
<1> DEFINE s == Dir(p)[Manifest]
<1>1. /\ UNCHANGED <<disk, up, overlapped, contested>>
      /\ \A q \in Processes \ {p} : command'[q] = command[q]
      /\ command'[p].pc = "down" /\ Spec(p)' = s
      /\ s # None
  BY DEF LoadHandle, Whole, history, Spec, Manifest, DInv, Shape, Commands
<1>2. /\ Spec(p).runtime \in RuntimeIds
      /\ s.runtime = Spec(p).runtime
  BY <1>1, RuntimeIdsOfSpecs DEF DInv, Shape, Commands, Spec, WellSaid, Said, Dir, Manifest
<1>3. MInv'
  BY <1>1, MatchedQuiet DEF TInv, Writing
<1>4. ASSUME ~overlapped, ~contested  PROVE Kempt'
  <2> SUFFICES ASSUME NEW q \in Projects, Proper(q)' PROVE Tended(q, up[q].runtime)'
    BY <1>1 DEF Kempt
  <2> DEFINE r == up[q].runtime
  <2>1. Tended(q, r)
    BY <1>1, <1>4 DEF TInv, Kempt, Proper
  <2>2. ASSUME s.runtime = r  PROVE s.project = q
    <3>1. SameWriter(r)
      BY <1>2, <1>4, <2>2 DEF TInv, MInv, Matched
    <3> QED
      BY <1>1, <1>2, <2>1, <2>2, <3>1 DEF SameWriter, Tended, Dir
  <2> HIDE DEF r, s
  <2>3. r' = r
    BY <1>1 DEF r
  <2>4. ASSUME NEW o \in Processes, Spec(o)'.runtime = r
        PROVE  command'[o].pc # "purge" /\ (command'[o].pc = "down" => Spec(o)'.project = q)
    <3>1. CASE o = p
      BY <1>1, <2>2, <2>4, <3>1
    <3>2. CASE o # p
      BY <1>1, <2>1, <2>4, <3>2 DEF Tended, Spec
    <3> QED
      BY <3>1, <3>2
  <2>5. /\ disk'[r][Token] = up'[q].token
        /\ disk'[r][Env] # None /\ disk'[r][Env].project = q
    BY <1>1, <2>1 DEF Tended
  <2> QED
    BY <1>1, <2>4, <2>5 DEF Tended, r
<1> QED
  BY <1>1, <1>3, <1>4 DEF TInv, Started

LEMMA TokenWrite ==
    ASSUME DInv, TInv, NEW p \in Processes, WriteFile(p)
    PROVE  TInv'
<1> DEFINE d == Spec(p).runtime
<1>1. UNCHANGED <<up, overlapped, contested>>
  BY DEF WriteFile, history
<1>2. MInv' /\ Started'
  BY <1>1, MatchedWrite DEF TInv, Started
<1>3. ASSUME ~overlapped, ~contested  PROVE Kempt'
  <2>1. /\ command[p].next \in 1..7 /\ d \in RuntimeIds
        /\ \A f \in Files \ {FileOrder[command[p].next]} : disk'[d][f] = disk[d][f]
        /\ \A r \in RuntimeIds \ {d} : disk'[r] = disk[r]
    BY WriteEffect
  <2>2. disk[d][FileOrder[command[p].next]] = None
    BY <1>3, WriteIsNew DEF Dir
  <2>3. \A q \in Processes : command'[q].pc \in {"down", "purge"} => command'[q] = command[q]
    BY <2>1, WriteCommand
  <2>4. ASSUME NEW q \in Projects, Proper(q)
        PROVE  Tended(q, up[q].runtime)'
    <3> DEFINE r == up[q].runtime
    <3>1. Tended(q, r) /\ up[q].token # None
      BY <1>3, <2>4 DEF TInv, Started, Kempt, Proper
    <3>2. r \in RuntimeIds
      BY <2>4 DEF Proper, DInv, Shape, Project
    <3> HIDE DEF r
    <3>3. disk'[r][Token] = disk[r][Token] /\ disk'[r][Env] = disk[r][Env]
      <4>1. CASE r = d
        BY <2>1, <2>2, <3>1, <4>1, NamedFiles DEF Tended
      <4>2. CASE r # d
        BY <2>1, <3>2, <4>2
      <4> QED
        BY <4>1, <4>2
    <3>4. /\ disk'[r][Token] = up'[q].token
          /\ disk'[r][Env] # None /\ disk'[r][Env].project = q
      BY <1>1, <3>1, <3>3 DEF Tended
    <3>5. \A o \in Processes : Spec(o)'.runtime = r =>
             /\ command'[o].pc # "purge"
             /\ command'[o].pc = "down" => Spec(o)'.project = q
      BY <2>3, <3>1 DEF Tended, Spec
    <3> QED
      BY <1>1, <3>4, <3>5 DEF Tended, r
  <2> QED
    BY <1>1, <2>4 DEF Kempt, Proper
<1> QED
  BY <1>1, <1>2, <1>3 DEF TInv

LEMMA TokenUp ==
    ASSUME DInv, TInv, NEW p \in Processes, ComposeUp(p)
    PROVE  TInv'
<1> DEFINE c == Containers(p)
<1>1. /\ Spec(p).project \in Projects
      /\ up' = [up EXCEPT ![Spec(p).project] = c]
  BY RuntimeIdsOfSpecs DEF ComposeUp, DInv, Shape, Commands, Spec
<1>2. /\ c.runtime = Spec(p).runtime
      /\ c.token = disk[Spec(p).runtime][Token]
      /\ c.project = disk[Spec(p).runtime][Env].project
      /\ c.token # None /\ disk[Spec(p).runtime][Env] # None
  BY DEF ComposeUp, CanRun, Containers, Dir, Token, Env
<1> HIDE DEF c
<1>3. \A q \in Projects : up'[q] = IF q = Spec(p).project THEN c ELSE up[q]
  BY <1>1 DEF DInv, Shape
<1>4. disk' = disk /\ contested' = contested /\ End(p)
  BY DEF ComposeUp
<1>5. /\ command'[p] = Idle
      /\ \A q \in Processes \ {p} : command'[q] = command[q]
  BY <1>4, EndsIdle DEF DInv
<1>6. MInv'
  BY <1>4, <1>5, IdleCommand, MatchedQuiet DEF TInv, Writing
<1>7. Started'
  BY <1>1, <1>2, <1>3 DEF TInv, Started
<1>8. ASSUME ~overlapped', ~contested'  PROVE Kempt'
  <2>1. ~overlapped /\ \A q \in Processes \ {p} : ~Stopping(q)
    BY <1>8 DEF ComposeUp
  <2>2. Kempt
    BY <1>4, <1>8, <2>1 DEF TInv
  <2>3. \A q \in Processes : command'[q].pc \notin {"down", "purge"}
    BY <1>5, <2>1, IdleCommand DEF Stopping
  <2>4. ASSUME NEW q \in Projects, Proper(q)'  PROVE Tended(q, up[q].runtime)'
    <3>1. CASE q = Spec(p).project
      BY <1>2, <1>3, <1>4, <2>3, <2>4, <3>1 DEF Tended, Proper
    <3>2. CASE q # Spec(p).project
      BY <1>3, <1>4, <2>2, <2>3, <2>4, <3>2 DEF Kempt, Tended, Proper
    <3> QED
      BY <3>1, <3>2
  <2> QED
    BY <2>4 DEF Kempt
<1> QED
  BY <1>6, <1>7, <1>8 DEF TInv

LEMMA TokenDown ==
    ASSUME DInv, TInv, NEW p \in Processes, ComposeDown(p)
    PROVE  TInv'
<1>1. /\ Spec(p).project \in Projects
      /\ up' = [up EXCEPT ![Spec(p).project] = None]
      /\ UNCHANGED <<disk, overlapped, contested>>
      /\ command[p].pc = "down"
  BY RuntimeIdsOfSpecs DEF ComposeDown, DInv, Shape, Commands, Spec
<1>2. \A q \in Projects : up'[q] = IF q = Spec(p).project THEN None ELSE up[q]
  BY <1>1 DEF DInv, Shape
<1>3. /\ \A q \in Processes \ {p} : command'[q] = command[q]
      /\ \/ command'[p].pc = "idle"
         \/ command'[p].pc = "purge" /\ Spec(p)' = Spec(p)
  <2>1. CASE command[p].purge
    BY <2>1, GoesTo DEF ComposeDown, DInv, Stages
  <2>2. CASE ~command[p].purge
    <3>1. End(p)
      BY <2>2 DEF ComposeDown
    <3> QED
      BY <3>1, EndsIdle, IdleCommand DEF DInv
  <2> QED
    BY <2>1, <2>2
<1>4. MInv'
  BY <1>1, <1>3, MatchedQuiet DEF TInv, Writing
<1>5. Started'
  BY <1>2 DEF TInv, Started
<1>6. ASSUME ~overlapped, ~contested  PROVE Kempt'
  <2> SUFFICES ASSUME NEW q \in Projects, Proper(q)' PROVE Tended(q, up[q].runtime)'
    BY DEF Kempt
  <2>1. q # Spec(p).project /\ up'[q] = up[q]
    BY <1>2 DEF Proper
  <2>2. Tended(q, up[q].runtime)
    BY <1>6, <2>1 DEF TInv, Kempt, Proper
  <2>3. up[q].runtime # Spec(p).runtime
    BY <1>1, <2>1, <2>2 DEF Tended
  <2>4. ASSUME NEW o \in Processes, Spec(o)'.runtime = up[q].runtime
        PROVE  command'[o].pc # "purge" /\ (command'[o].pc = "down" => Spec(o)'.project = q)
    <3>1. CASE o = p
      BY <1>3, <2>3, <2>4, <3>1
    <3>2. CASE o # p
      BY <1>3, <2>2, <2>4, <3>2 DEF Tended, Spec
    <3> QED
      BY <3>1, <3>2
  <2> QED
    BY <1>1, <2>1, <2>2, <2>4 DEF Tended
<1> QED
  BY <1>1, <1>4, <1>5, <1>6 DEF TInv

LEMMA TokenPurge ==
    ASSUME DInv, TInv, NEW p \in Processes, Purge(p)
    PROVE  TInv'
<1>1. UNCHANGED <<up, overlapped>> /\ (~contested' => ~contested) /\ command[p].pc = "purge"
  BY DEF Purge
<1>2. MInv' /\ Started'
  BY <1>1, MatchedPurge DEF TInv, Started
<1>3. ASSUME ~overlapped, ~contested  PROVE Kempt'
  <2>1. \A r \in RuntimeIds \ {Spec(p).runtime} : disk'[r] = disk[r]
    BY PurgeEffect
  <2>2. \A o \in Processes : command'[o].pc \in {"down", "purge"} =>
            command'[o].pc = command[o].pc /\ Spec(o)' = Spec(o)
    <3>1. CASE End(p)
      BY <3>1, EndsIdle, IdleCommand DEF DInv, Spec
    <3>2. CASE command' = [command EXCEPT ![p].next = 2]
      BY <1>1, <3>2 DEF DInv, Shape, Commands, Spec
    <3> QED
      BY <3>1, <3>2, PurgeEffect
  <2>3. ASSUME NEW q \in Projects, Proper(q)  PROVE Tended(q, up[q].runtime)'
    <3>1. Tended(q, up[q].runtime)
      BY <1>3, <2>3 DEF TInv, Kempt
    <3>2. up[q].runtime \in RuntimeIds \ {Spec(p).runtime}
      BY <1>1, <2>3, <3>1 DEF Proper, Tended, DInv, Shape, Project
    <3> QED
      BY <1>1, <2>1, <2>2, <3>1, <3>2 DEF Tended
  <2> QED
    BY <1>1, <2>3 DEF Kempt, Proper
<1> QED
  BY <1>1, <1>2, <1>3 DEF TInv

LEMMA TInvStep ==
    ASSUME DInv, TInv, [Next]_vars
    PROVE  TInv'
<1>1. CASE UNCHANGED vars
  BY <1>1, TokenQuiet DEF vars, history
<1>2. ASSUME NEW p \in Processes, Begin(p)  PROVE TInv'
  <2>1. PICK spec \in Specs, pc \in {"reserve", "load", "up"}, purge \in BOOLEAN :
           Give(p, spec, pc, purge)
    BY <1>2 DEF Begin, Start, Setup, Stop
  <2>2. UNCHANGED <<disk, up, overlapped, contested>>
    BY <2>1 DEF Give, history
  <2>3. \A q \in Processes : command'[q].pc \in {"prepare", "down", "purge"} =>
            command'[q] = command[q]
    BY <2>1, IdleCommand DEF Give, DInv, Shape, Commands
  <2> QED
    BY <2>2, <2>3, TokenQuiet
<1>3. ASSUME NEW p \in Processes, End(p) \/ Reserve(p) \/ Die(p),
             UNCHANGED <<disk, up, overlapped, contested>>
      PROVE  TInv'
  <2>1. CASE End(p)
    BY <1>3, <2>1, EndsIdle, IdleCommand, TokenQuiet DEF DInv
  <2>2. CASE Reserve(p)
    <3>1. Goto(p, "prepare") /\ "prepare" \in Stages /\ command[p].next = 1
      BY <2>2 DEF Reserve, Stages, DInv, Shape
    <3> QED
      BY <1>3, <3>1, GoesTo, TokenQuiet DEF DInv
  <2>3. CASE Die(p)
    BY <1>3, <2>3, IdleCommand, TokenQuiet DEF Die, DInv, Shape
  <2> QED
    BY <1>3, <2>1, <2>2, <2>3
<1>4. ASSUME NEW p \in Processes, Continue(p)  PROVE TInv'
  <2>1. CASE \/ RefuseReservation(p) \/ PrepareFails(p) \/ ComposeUpFails(p)
             \/ StopFails(p) \/ PurgeFails(p)
    <3>1. End(p) /\ UNCHANGED <<disk, up, overlapped, contested>>
      BY <2>1 DEF RefuseReservation, PrepareFails, ComposeUpFails, StopFails, PurgeFails
    <3> QED
      BY <1>3, <3>1
  <2>2. CASE Reserve(p)
    <3>1. UNCHANGED <<disk, up, overlapped, contested>>
      BY <2>2 DEF Reserve
    <3> QED
      BY <1>3, <2>2, <3>1
  <2> QED
    BY <1>4, <2>1, <2>2, TokenWrite, TokenUp, TokenLoad, TokenDown, TokenPurge DEF Continue
<1>5. ASSUME NEW p \in Processes, Die(p)  PROVE TInv'
  <2>1. UNCHANGED <<disk, up, overlapped, contested>>
    BY <1>5 DEF Die
  <2> QED
    BY <1>3, <1>5, <2>1
<1> QED
  BY <1>1, <1>2, <1>4, <1>5 DEF Next

LEMMA TInvInit == Init => TInv
<1> SUFFICES ASSUME Init PROVE TInv
  OBVIOUS
<1>1. \A p \in Processes : ~Writing(p)
  BY IdleCommand DEF Init, Writing
<1>2. Matched
  BY <1>1, NamedFiles DEF Init, Matched, SameWriter, NoDirectory
<1> QED
  BY <1>2 DEF Init, TInv, MInv, Started, Kempt, Proper

\* Containers that run under the project their environment names find the
\* token they were started with on disk, for any processes, any specs, also
\* several projects for one runtime, and any number of commands, as long as no
\* start overlaps a stop and no two purges meet.
THEOREM TokenStays == RuntimeSpec => []RunningHasItsToken
<1>1. DInv /\ TInv /\ [Next]_vars => TInv'
  BY TInvStep
<1>2. TInv => RunningHasItsToken
  BY DEF TInv, Kempt, Tended, Proper, Token, RunningHasItsToken
<1> QED
  BY <1>1, <1>2, TInvInit, DirectoriesOwned, PTL DEF RuntimeSpec

-----------------------------------------------------------------------------
(* Tokens: whoever runs, runs with one that was drawn, and a token is      *)
(* drawn for a command.                                                    *)

Drawn ==
    /\ given \in Nat
    /\ \A r \in RuntimeIds : disk[r][Token] # None => disk[r][Token] \in 1..tokens
    /\ \A q \in Projects : up[q] # None => up[q].token \in 1..tokens

\* Commands that have still to draw a token.
Owed == {p \in Processes :
            \/ command[p].pc = "reserve"
            \/ command[p].pc = "prepare" /\ command[p].next <= 3}

CInv == Drawn /\ tokens + Cardinality(Owed) <= given

LEMMA OwedFinite == IsFiniteSet(Owed) /\ Cardinality(Owed) \in Nat
BY RuntimeAssumption, FS_Subset, FS_CardinalityType DEF Owed

\* No more is owed than before.
LEMMA OwedLess ==
    ASSUME Owed' \subseteq Owed
    PROVE  Cardinality(Owed') \in Nat /\ Cardinality(Owed') <= Cardinality(Owed)
BY OwedFinite, FS_Subset, FS_CardinalityType

LEMMA OwedMore ==
    ASSUME NEW p \in Processes, Owed' \subseteq Owed \union {p}
    PROVE  Cardinality(Owed') \in Nat /\ Cardinality(Owed') <= Cardinality(Owed) + 1
<1>1. IsFiniteSet(Owed \union {p}) /\ Cardinality(Owed \union {p}) <= Cardinality(Owed) + 1
  <2>1. IsFiniteSet(Owed)
    BY OwedFinite
  <2>2. /\ IsFiniteSet(Owed \union {p})
        /\ Cardinality(Owed \union {p}) =
              IF p \in Owed THEN Cardinality(Owed) ELSE Cardinality(Owed) + 1
    BY ONLY <2>1, FS_AddElement, Zenon
  <2> QED
    BY <2>2, OwedFinite
<1>2. Cardinality(Owed \union {p}) \in Nat
  BY <1>1, FS_CardinalityType
<1>3. Cardinality(Owed') \in Nat /\ Cardinality(Owed') <= Cardinality(Owed \union {p})
  BY <1>1, FS_Subset, FS_CardinalityType
<1> QED
  BY <1>1, <1>2, <1>3, OwedFinite

LEMMA OwedPaid ==
    ASSUME NEW p \in Owed, Owed' \subseteq Owed \ {p}
    PROVE  Cardinality(Owed') \in Nat /\ Cardinality(Owed') + 1 <= Cardinality(Owed)
<1>1. IsFiniteSet(Owed \ {p}) /\ Cardinality(Owed \ {p}) = Cardinality(Owed) - 1
  BY OwedFinite, FS_RemoveElement
<1>2. Cardinality(Owed') \in Nat /\ Cardinality(Owed') <= Cardinality(Owed \ {p})
  BY <1>1, FS_Subset, FS_CardinalityType
<1> QED
  BY <1>1, <1>2, OwedFinite

\* A step of p that draws nothing and owes nothing new.
LEMMA NothingOwed ==
    ASSUME DInv, CInv, Drawn', NEW p \in Processes,
           \A q \in Processes \ {p} : command'[q] = command[q],
           p \in Owed' => p \in Owed,
           UNCHANGED <<given, tokens>>
    PROVE  CInv'
<1>1. Owed' \subseteq Owed
  BY DEF Owed
<1> QED
  BY <1>1, OwedLess, OwedFinite DEF CInv, Drawn, DInv, Shape

LEMMA GivenStep ==
    ASSUME DInv, CInv, NEW p \in Processes, Begin(p)
    PROVE  CInv'
<1>1. PICK spec \in Specs, pc \in {"reserve", "load", "up"}, purge \in BOOLEAN :
         Give(p, spec, pc, purge)
  BY DEF Begin, Start, Setup, Stop
<1>2. /\ UNCHANGED <<disk, up, tokens>> /\ given' = given + 1
      /\ \A q \in Processes \ {p} : command'[q] = command[q]
  BY <1>1 DEF Give, DInv, Shape
<1>3. Drawn'
  BY <1>2 DEF CInv, Drawn
<1>4. Owed' \subseteq Owed \union {p}
  BY <1>2 DEF Owed
<1> QED
  BY <1>2, <1>3, <1>4, OwedMore, OwedFinite DEF CInv, Drawn, DInv, Shape

LEMMA DrawStep ==
    ASSUME DInv, CInv, NEW p \in Processes, WriteFile(p)
    PROVE  CInv'
<1> DEFINE n == command[p].next
           d == Spec(p).runtime
<1>1. /\ n \in 1..7 /\ d \in RuntimeIds
      /\ disk'[d][FileOrder[n]] = Content(p, FileOrder[n])
      /\ \A f \in Files \ {FileOrder[n]} : disk'[d][f] = disk[d][f]
      /\ \A r \in RuntimeIds \ {d} : disk'[r] = disk[r]
  BY WriteEffect
<1>2. /\ UNCHANGED <<up, given>> /\ command[p].pc = "prepare"
      /\ \A q \in Processes \ {p} : command'[q] = command[q]
      /\ n = 7 => command'[p].pc = "up"
      /\ n < 7 => command'[p].pc = "prepare" /\ command'[p].next = n + 1
  BY WriteCommand DEF WriteFile, history
<1>3. /\ Token \in Files
      /\ FileOrder[n] = Token <=> n = 3
      /\ tokens' = IF n = 3 THEN tokens + 1 ELSE tokens
  BY <1>1, FileFacts DEF WriteFile, Token
<1> HIDE DEF n, d
<1>4. Drawn'
  <2>1. \A r \in RuntimeIds : disk'[r][Token] # None => disk'[r][Token] \in 1..tokens'
    <3>1. CASE n = 3
      <4>1. disk'[d][Token] = tokens + 1
        BY <1>1, <1>3, <3>1 DEF Content, Token
      <4> QED
        BY <1>1, <1>3, <3>1, <4>1 DEF CInv, Drawn, DInv, Shape
    <3>2. CASE n # 3
      BY <1>1, <1>3, <3>2 DEF CInv, Drawn
    <3> QED
      BY <3>1, <3>2
  <2>2. \A q \in Projects : up'[q] # None => up'[q].token \in 1..tokens'
    BY <1>2, <1>3 DEF CInv, Drawn, DInv, Shape
  <2> QED
    BY <1>2, <2>1, <2>2 DEF CInv, Drawn
<1>5. CASE n = 3
  <2>1. p \in Owed /\ Owed' \subseteq Owed \ {p}
    BY <1>2, <1>5 DEF Owed, n
  <2> QED
    BY <1>2, <1>3, <1>4, <1>5, <2>1, OwedPaid, OwedFinite DEF CInv, Drawn, DInv, Shape
<1>6. CASE n # 3
  <2>1. p \in Owed' => p \in Owed
    BY <1>1, <1>2, <1>6 DEF Owed, n
  <2> QED
    BY <1>2, <1>3, <1>4, <1>6, <2>1, NothingOwed
<1> QED
  BY <1>5, <1>6

\* A command that ends owes nothing, whatever becomes of the containers.
LEMMA EndOwes ==
    ASSUME DInv, CInv, Drawn', NEW p \in Processes, End(p), UNCHANGED <<given, tokens>>
    PROVE  CInv'
<1>1. p \notin Owed'
  BY EndsIdle, IdleCommand DEF Owed, DInv
<1> QED
  BY <1>1, EndsIdle, NothingOwed DEF DInv

LEMMA ComposeKeeps ==
    ASSUME DInv, CInv, NEW p \in Processes, ComposeUp(p) \/ ComposeDown(p)
    PROVE  CInv'
<1>1. Spec(p).project \in Projects /\ Spec(p).runtime \in RuntimeIds
  BY RuntimeIdsOfSpecs DEF DInv, Shape, Commands, Spec
<1>2. UNCHANGED <<disk, given, tokens>>
  BY DEF ComposeUp, ComposeDown
<1>3. CASE ComposeUp(p)
  <2>1. Containers(p).token \in 1..tokens
    BY <1>1, <1>3 DEF ComposeUp, CanRun, Containers, Dir, CInv, Drawn, Token
  <2>2. up' = [up EXCEPT ![Spec(p).project] = Containers(p)]
    BY <1>3 DEF ComposeUp
  <2>3. Drawn'
    BY <1>1, <1>2, <2>1, <2>2 DEF CInv, Drawn, DInv, Shape
  <2> QED
    BY <1>2, <1>3, <2>3, EndOwes DEF ComposeUp
<1>4. CASE ComposeDown(p)
  <2>1. Drawn'
    BY <1>1, <1>2, <1>4 DEF ComposeDown, CInv, Drawn, DInv, Shape
  <2>2. CASE command[p].purge
    <3>1. Goto(p, "purge") /\ "purge" \in Stages
      BY <1>4, <2>2 DEF ComposeDown, Stages
    <3>2. p \notin Owed' /\ \A q \in Processes \ {p} : command'[q] = command[q]
      BY <3>1, GoesTo DEF Owed, DInv
    <3> QED
      BY <1>2, <2>1, <3>2, NothingOwed
  <2>3. CASE ~command[p].purge
    BY <1>2, <1>4, <2>1, <2>3, EndOwes DEF ComposeDown
  <2> QED
    BY <2>2, <2>3
<1> QED
  BY <1>3, <1>4

LEMMA PurgeKeeps ==
    ASSUME DInv, CInv, NEW p \in Processes, Purge(p)
    PROVE  CInv'
<1>1. UNCHANGED <<up, given, tokens>> /\ command[p].pc = "purge"
  BY DEF Purge
<1>2. Token \in Files
  BY FileFacts DEF Token
<1>3. \A r \in RuntimeIds : disk'[r][Token] \in {disk[r][Token], None}
  BY <1>2, PurgeEffect
<1>4. Drawn'
  BY <1>1, <1>3 DEF CInv, Drawn
<1>5. CASE End(p)
  BY <1>1, <1>4, <1>5, EndOwes
<1>6. CASE command' = [command EXCEPT ![p].next = 2]
  <2>1. p \notin Owed' /\ \A q \in Processes \ {p} : command'[q] = command[q]
    BY <1>1, <1>6 DEF Owed, DInv, Shape, Commands
  <2> QED
    BY <1>1, <1>4, <2>1, NothingOwed
<1> QED
  BY <1>5, <1>6, PurgeEffect

LEMMA CInvStep ==
    ASSUME DInv, CInv, [Next]_vars
    PROVE  CInv'
<1>1. CASE UNCHANGED vars
  <2>1. UNCHANGED <<disk, up, command, given, tokens>>
    BY <1>1 DEF vars
  <2>2. Drawn' /\ Owed' = Owed
    BY <2>1 DEF CInv, Drawn, Owed
  <2> QED
    BY <2>1, <2>2 DEF CInv
<1>2. ASSUME NEW p \in Processes, UNCHANGED <<disk, up, given, tokens>>,
             End(p) \/ Reserve(p) \/ LoadHandle(p) \/ Die(p)
      PROVE  CInv'
  <2>1. Drawn'
    BY <1>2 DEF CInv, Drawn
  <2>2. CASE End(p)
    BY <1>2, <2>1, <2>2, EndOwes
  <2>3. CASE Reserve(p)
    <3>1. \A q \in Processes \ {p} : command'[q] = command[q]
      BY <2>3 DEF Reserve, Goto, DInv, Shape
    <3>2. p \in Owed
      BY <2>3 DEF Reserve, Owed
    <3> QED
      BY <1>2, <2>1, <3>1, <3>2, NothingOwed
  <2>4. CASE LoadHandle(p) \/ Die(p)
    <3>1. \A q \in Processes \ {p} : command'[q] = command[q]
      BY <2>4 DEF LoadHandle, Die, DInv, Shape
    <3>2. command'[p].pc \in {"down", "idle"}
      BY <2>4, IdleCommand DEF LoadHandle, Die, DInv, Shape, Commands
    <3> QED
      BY <1>2, <2>1, <3>1, <3>2, NothingOwed DEF Owed
  <2> QED
    BY <1>2, <2>2, <2>3, <2>4
<1>3. ASSUME NEW p \in Processes, Continue(p)  PROVE CInv'
  <2>1. CASE \/ RefuseReservation(p) \/ PrepareFails(p) \/ ComposeUpFails(p)
             \/ StopFails(p) \/ PurgeFails(p)
    <3>1. End(p) /\ UNCHANGED <<disk, up, given, tokens>>
      BY <2>1 DEF RefuseReservation, PrepareFails, ComposeUpFails, StopFails, PurgeFails
    <3> QED
      BY <1>2, <3>1
  <2>2. CASE Reserve(p) \/ LoadHandle(p)
    BY <1>2, <2>2 DEF Reserve, LoadHandle
  <2> QED
    BY <1>3, <2>1, <2>2, DrawStep, ComposeKeeps, PurgeKeeps DEF Continue
<1>4. ASSUME NEW p \in Processes, Die(p)  PROVE CInv'
  BY <1>2, <1>4 DEF Die
<1> QED
  BY <1>1, <1>3, <1>4, GivenStep DEF Next

LEMMA CInvInit == Init => CInv
<1> SUFFICES ASSUME Init PROVE CInv
  OBVIOUS
<1>1. Owed = {}
  BY IdleCommand DEF Init, Owed
<1>2. Drawn
  BY FileFacts DEF Init, Drawn, NoDirectory, Token
<1> QED
  BY <1>1, <1>2, FS_EmptySet DEF Init, CInv

\* Running containers have a token that was drawn, commands stay within the
\* files they write, and no more tokens are drawn than commands are given, for
\* any finite set of processes and any specs.
THEOREM RuntimeTypeCorrect == RuntimeSpec => []RuntimeTypeOK
<1>1. DInv /\ CInv /\ [Next]_vars => CInv'
  BY CInvStep
<1>2. DInv /\ CInv => RuntimeTypeOK
  <2> SUFFICES ASSUME DInv, CInv PROVE RuntimeTypeOK
    OBVIOUS
  <2>1. \A q \in Projects :
            up[q] # None => up[q].runtime \in RuntimeIds /\ up[q].token \in 1..tokens
    BY DEF DInv, Shape, Project, CInv, Drawn
  <2>2. \A p \in Processes : command[p].pc \in Stages /\ command[p].next \in DOMAIN FileOrder
                             /\ Spec(p) \in Specs
    BY FileFacts DEF DInv, Shape, Commands, Spec
  <2>3. tokens <= given
    BY OwedFinite DEF CInv, Drawn, DInv, Shape
  <2> QED
    BY <2>1, <2>2, <2>3 DEF RuntimeTypeOK, Stages
<1> QED
  BY <1>1, <1>2, CInvInit, DirectoriesOwned, PTL DEF RuntimeSpec
=============================================================================
