---------------------------- MODULE GraphRuntime ----------------------------
(***************************************************************************)
(* GraphRuntimeManager and the scripts around it: HydraDB runtimes as      *)
(* directories of secrets and manifests under infra/runtime, and compose   *)
(* projects started from them.                                             *)
(*                                                                         *)
(* A process is a command line (manager start, manager stop, setup.sh) or  *)
(* a program that keeps a manager over several commands.  A directory is   *)
(* written file by file and a purge deletes it file by file, processes     *)
(* interleave in between and may die there, and docker compose may fail.   *)
(***************************************************************************)
EXTENDS Naturals, Sequences, FiniteSets

CONSTANTS
    Processes,      \* processes that use runtimes
    Kept,           \* those that keep one manager over their commands
    Specs,          \* what can be started: [runtime, project, graph, port]
    None,
    MaxCommands     \* bound: commands given in a behaviour

RuntimeIds == {s.runtime : s \in Specs}

Projects == {s.project : s \in Specs}

ASSUME RuntimeAssumption ==
    /\ IsFiniteSet(Processes)
    /\ Kept \subseteq Processes
    /\ MaxCommands \in Nat
    /\ None \notin RuntimeIds
    /\ Specs # {}

VARIABLES
    disk,        \* runtime id -> file -> what it says, or None
    up,          \* compose project -> the containers that run in it, or None
    reserved,    \* process -> its manager's reservations
    command,     \* process -> the command it runs
    given,       \* commands given so far
    tokens,      \* tokens drawn so far: secrets.token_urlsafe never repeats one
    prepared,    \* history: process -> specs its manager has reserved
    overlapped,  \* history: containers were started while a stop was under way
    contested    \* history: two processes deleted one directory at a time

history == <<prepared, overlapped, contested>>

vars == <<disk, up, reserved, command, given, tokens, history>>

-----------------------------------------------------------------------------

\* The files in the order prepare writes them, the directory first.
FileOrder ==
    <<"dir", ".xray-runtime", "hydra-auth-token", "minio-root-user",
      "minio-root-password", "compose.env", "runtime-manifest.json">>

Files == {FileOrder[i] : i \in DOMAIN FileOrder}

NoDirectory == [f \in Files |-> None]

Idle == [pc |-> "idle", spec |-> CHOOSE s \in Specs : TRUE, next |-> 1, purge |-> FALSE]

NoReservations == [projects |-> <<>>, graphs |-> <<>>]

Put(f, k, v) == [x \in DOMAIN f \union {k} |-> IF x = k THEN v ELSE f[x]]

Spec(p) == command[p].spec

Dir(p) == disk[Spec(p).runtime]

Exists(r, f) == disk[r][f] # None

Goto(p, pc) == command' = [command EXCEPT ![p].pc = pc]

\* The command returns or raises; a command line ends with it, and its
\* manager's reservations are gone.
End(p) ==
    /\ command' = [command EXCEPT ![p] = Idle]
    /\ reserved' = IF p \in Kept THEN reserved
                   ELSE [reserved EXCEPT ![p] = NoReservations]
    /\ prepared' = IF p \in Kept THEN prepared ELSE [prepared EXCEPT ![p] = {}]

Give(p, spec, pc, purge) ==
    /\ command[p].pc = "idle"
    /\ given < MaxCommands
    /\ given' = given + 1
    /\ command' = [command EXCEPT ![p] = [Idle EXCEPT !.pc = pc, !.spec = spec, !.purge = purge]]
    /\ UNCHANGED <<disk, up, reserved, tokens, history>>

Start(p, spec) == Give(p, spec, "reserve", FALSE)

Stop(p, spec, purge) == Give(p, spec, "load", purge)

\* setup.sh brings up what has been prepared, and prepares it otherwise.
Setup(p, spec) ==
    /\ p \notin Kept
    /\ Give(p, spec, IF Exists(spec.runtime, "compose.env") THEN "up" ELSE "reserve", FALSE)

-----------------------------------------------------------------------------
(* start: reserve, prepare, docker compose up                              *)

Owned(f, k, r) == k \in DOMAIN f => f[k] = r

\* Mutant of Reservable: the graph's object state is not looked up.
Reservable_Project(m, spec) == Owned(m.projects, spec.project, spec.runtime)

Reservable(m, spec) ==
    /\ Owned(m.projects, spec.project, spec.runtime)
    /\ Owned(m.graphs, spec.graph, spec.runtime)

Reserve(p) ==
    /\ command[p].pc = "reserve"
    /\ Reservable(reserved[p], Spec(p))
    /\ reserved' = [reserved EXCEPT
                      ![p] = [projects |-> Put(@.projects, Spec(p).project, Spec(p).runtime),
                              graphs |-> Put(@.graphs, Spec(p).graph, Spec(p).runtime)]]
    /\ prepared' = [prepared EXCEPT ![p] = @ \union {Spec(p)}]
    /\ Goto(p, "prepare")
    /\ UNCHANGED <<disk, up, given, tokens, overlapped, contested>>

RefuseReservation(p) ==
    /\ command[p].pc = "reserve"
    /\ ~Reservable(reserved[p], Spec(p))
    /\ End(p)
    /\ UNCHANGED <<disk, up, given, tokens, overlapped, contested>>

\* What the i-th file says: secrets are drawn when they are written, the
\* environment and the manifest name the project and the ports.
Content(p, f) ==
    CASE f = "hydra-auth-token" -> tokens + 1
      [] f = "compose.env" -> Spec(p)
      [] f = "runtime-manifest.json" -> Spec(p)
      [] OTHER -> Spec(p).runtime

\* Mutant of MayWrite: mkdir takes a directory that is already there.
MayWrite_ExistOk(p) == TRUE

\* mkdir(exist_ok=False); the files below it need the directory.
MayWrite(p) ==
    IF command[p].next = 1 THEN Dir(p)["dir"] = None ELSE Dir(p)["dir"] # None

WriteFile(p) ==
    LET f == FileOrder[command[p].next]
    IN  /\ command[p].pc = "prepare"
        /\ MayWrite(p)
        /\ disk' = [disk EXCEPT ![Spec(p).runtime][f] = Content(p, f)]
        /\ tokens' = IF f = "hydra-auth-token" THEN tokens + 1 ELSE tokens
        /\ command' = [command EXCEPT
                         ![p].pc = IF command[p].next = Len(FileOrder) THEN "up" ELSE "prepare",
                         ![p].next = IF command[p].next = Len(FileOrder) THEN 1 ELSE @ + 1]
        /\ UNCHANGED <<up, reserved, given, history>>

\* FileExistsError, a directory that is gone, or no lock file of images.
PrepareFails(p) ==
    /\ command[p].pc = "prepare"
    /\ ~MayWrite(p) \/ FileOrder[command[p].next] = "compose.env"
    /\ End(p)
    /\ UNCHANGED <<disk, up, given, tokens, overlapped, contested>>

\* Compose reads the environment, whichever spec wrote it, and runs it under
\* the project named on the command line: that of the environment, unless
\* setup.sh finds an environment and is given another.
Containers(p) ==
    [runtime |-> Spec(p).runtime, port |-> Dir(p)["compose.env"].port,
     token |-> Dir(p)["hydra-auth-token"], project |-> Dir(p)["compose.env"].project]

PortTaken(p) ==
    \E q \in Projects \ {Spec(p).project} :
        up[q] # None /\ up[q].port = Dir(p)["compose.env"].port

\* Mutant of CanRun: compose is run without a look at the secrets.
CanRun_EnvOnly(p) == Dir(p)["compose.env"] # None

CanRun(p) == Dir(p)["compose.env"] # None /\ Dir(p)["hydra-auth-token"] # None

Stopping(q) == command[q].pc \in {"down", "purge"}

ComposeUp(p) ==
    /\ command[p].pc = "up"
    /\ CanRun(p)
    /\ ~PortTaken(p)
    /\ up' = [up EXCEPT ![Spec(p).project] = Containers(p)]
    /\ overlapped' = (overlapped \/ \E q \in Processes \ {p} : Stopping(q))
    /\ End(p)
    /\ UNCHANGED <<disk, given, tokens, contested>>

\* up fails before any container runs; when it leaves some behind, the step
\* is ComposeUp and the command reports an error.
ComposeUpFails(p) ==
    /\ command[p].pc = "up"
    /\ End(p)
    /\ UNCHANGED <<disk, up, given, tokens, overlapped, contested>>

-----------------------------------------------------------------------------
(* stop: load the handle, verify, docker compose down, purge               *)

Whole(p) == Dir(p)["runtime-manifest.json"] # None /\ Dir(p)[".xray-runtime"] # None

\* What the hash of a manifest tells apart; the graph is not part of it.
Hashed(spec) == <<spec.runtime, spec.project, spec.port>>

\* verify: the sentinel names the runtime, and the manifest is whole and the
\* one the handle was loaded from.
Verified(p) == Whole(p) /\ Hashed(Dir(p)["runtime-manifest.json"]) = Hashed(Spec(p))

\* The project is the manifest's, whatever was given to a later setup.
LoadHandle(p) ==
    /\ command[p].pc = "load"
    /\ Whole(p)
    /\ command' = [command EXCEPT ![p].pc = "down",
                                  ![p].spec = Dir(p)["runtime-manifest.json"]]
    /\ UNCHANGED <<disk, up, reserved, given, tokens, history>>

\* Mutant of StopFails: a purge goes on when compose down has failed.
StopFails_Unchecked(p) ==
    /\ command[p].pc = "down" /\ command[p].purge
    /\ Goto(p, "purge")
    /\ UNCHANGED <<disk, up, reserved, given, tokens, history>>

\* Mutant of StopFails: a stop waits for a directory that is not there.
StopFails_Waits(p) ==
    /\ command[p].pc = "down"
    /\ End(p)
    /\ UNCHANGED <<disk, up, given, tokens, overlapped, contested>>

StopFails(p) ==
    /\ \/ command[p].pc = "load" /\ ~Whole(p)
       \/ command[p].pc = "purge" /\ command[p].next = 1 /\ ~Verified(p)
       \/ command[p].pc = "down"
    /\ End(p)
    /\ UNCHANGED <<disk, up, given, tokens, overlapped, contested>>

ComposeDown(p) ==
    /\ command[p].pc = "down"
    /\ Dir(p)["compose.env"] # None
    /\ up' = [up EXCEPT ![Spec(p).project] = None]
    /\ IF command[p].purge
       THEN Goto(p, "purge") /\ UNCHANGED <<reserved, prepared>>
       ELSE End(p)
    /\ UNCHANGED <<disk, given, tokens, overlapped, contested>>

\* q has deleted a file of r and not yet the directory.
Deleting(q, r) == command[q].pc = "purge" /\ command[q].next = 2 /\ Spec(q).runtime = r

\* rmtree deletes the files in the order of the directory, which is any
\* order, and the directory last.  A directory that is prepared again under
\* a second purge is deleted with it.
Purge(p) ==
    /\ command[p].pc = "purge"
    /\ command[p].next = 1 => Verified(p)
    /\ \E f \in Files :
          /\ Dir(p)[f] # None
          /\ f = "dir" => \A g \in Files \ {f} : Dir(p)[g] = None
          /\ disk' = [disk EXCEPT ![Spec(p).runtime][f] = None]
          /\ IF f = "dir" THEN End(p)
             ELSE /\ command' = [command EXCEPT ![p].next = 2]
                  /\ UNCHANGED <<reserved, prepared>>
    /\ contested' = (contested \/ \E q \in Processes \ {p} : Deleting(q, Spec(p).runtime))
    /\ UNCHANGED <<up, given, tokens, overlapped>>

\* Another process has deleted the directory under this one.
PurgeFails(p) ==
    /\ command[p].pc = "purge" /\ command[p].next = 2
    /\ Dir(p)["dir"] = None
    /\ End(p)
    /\ UNCHANGED <<disk, up, given, tokens, overlapped, contested>>

\* The process is killed between two steps; a manager dies with it.
Die(p) ==
    /\ command[p].pc # "idle"
    /\ command' = [command EXCEPT ![p] = Idle]
    /\ reserved' = [reserved EXCEPT ![p] = NoReservations]
    /\ prepared' = [prepared EXCEPT ![p] = {}]
    /\ UNCHANGED <<disk, up, given, tokens, overlapped, contested>>

-----------------------------------------------------------------------------

Init ==
    /\ disk = [r \in RuntimeIds |-> NoDirectory]
    /\ up = [q \in Projects |-> None]
    /\ reserved = [p \in Processes |-> NoReservations]
    /\ command = [p \in Processes |-> Idle]
    /\ given = 0
    /\ tokens = 0
    /\ prepared = [p \in Processes |-> {}]
    /\ overlapped = FALSE
    /\ contested = FALSE

Continue(p) ==
    \/ Reserve(p) \/ RefuseReservation(p)
    \/ WriteFile(p) \/ PrepareFails(p)
    \/ ComposeUp(p) \/ ComposeUpFails(p)
    \/ LoadHandle(p) \/ StopFails(p) \/ ComposeDown(p)
    \/ Purge(p) \/ PurgeFails(p)

Begin(p) ==
    \E spec \in Specs :
        \/ Start(p, spec) \/ Setup(p, spec)
        \/ \E purge \in BOOLEAN : Stop(p, spec, purge)

Next == \E p \in Processes : Begin(p) \/ Continue(p) \/ Die(p)

RuntimeSpec == Init /\ [][Next]_vars

\* A process that is alive goes on; docker compose returns, whatever it says.
FairRuntimeSpec == RuntimeSpec /\ \A p \in Processes : WF_vars(Continue(p))

-----------------------------------------------------------------------------
(* Properties.                                                             *)

\* Containers run the environment of a prepared directory, a command that
\* writes is at a file of the list, and no more tokens than commands.
RuntimeTypeOK ==
    /\ \A q \in Projects :
          up[q] # None => up[q].runtime \in RuntimeIds /\ up[q].token \in 1..tokens
    /\ \A p \in Processes :
          /\ command[p].pc \in {"idle", "reserve", "prepare", "up", "load", "down", "purge"}
          /\ command[p].next \in DOMAIN FileOrder
          /\ Spec(p) \in Specs
    /\ tokens <= given

\* What one manager has prepared never aliases: two of its runtimes share
\* neither a compose project nor the object state of a graph, whatever
\* collisions it refused and whatever failed after a reservation.
NoAliasInManager ==
    \A p \in Processes : \A s, t \in prepared[p] :
        s.project = t.project \/ s.graph = t.graph => s.runtime = t.runtime

\* A file of a runtime's directory is written once and then only deleted,
\* however many starts, set-ups and stops race for the directory: no secret
\* changes under the containers that were started with it.  Two stops that
\* purge one directory at a time take this away: the later one deletes on in a
\* directory that has been prepared again.
FilesWrittenOnce ==
    [][~contested => \A r \in RuntimeIds, f \in Files :
         disk'[r][f] # disk[r][f] => None \in {disk[r][f], disk'[r][f]}]_disk

\* Containers that run under the project their environment names find on disk
\* the token they were started with, as long as none were started while a
\* stop was under way: whatever projects a runtime is set up under, fails,
\* half prepared or half purged, a purge takes the directory after these
\* containers (setup.sh, stop --purge-local).  Containers that setup.sh
\* started under another project outlive their directory.
RunningHasItsToken ==
    ~overlapped /\ ~contested => \A q \in Projects :
        up[q] # None /\ up[q].project = q =>
            disk[up[q].runtime]["hydra-auth-token"] = up[q].token

\* Every command comes to its end: a start that finds the directory taken,
\* or a stop that finds it purged, fails instead of waiting.
CommandsEnd == \A p \in Processes : command[p].pc # "idle" ~> command[p].pc = "idle"

\* RuntimeCollisionError is raised when two specs would alias graph state.
RuntimesNeverAlias ==
    \A r, s \in RuntimeIds :
        LET m == disk[r]["runtime-manifest.json"]
            n == disk[s]["runtime-manifest.json"]
        IN  r # s /\ None \notin {m, n} => m.project # n.project /\ m.graph # n.graph
=============================================================================
