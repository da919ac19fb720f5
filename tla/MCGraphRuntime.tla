--------------------------- MODULE MCGraphRuntime ---------------------------
(***************************************************************************)
(* Two runtimes with projects of their own that name the same graph, a     *)
(* third that takes the project of the first, and the first once more      *)
(* under another project: setup.sh, which has a project of its own to      *)
(* default to, brings up a prepared runtime under the one it is given.     *)
(* The defaults of the command line give all of them the same ports.       *)
(***************************************************************************)
EXTENDS GraphRuntime

Runtime(r, project, graph, port) ==
    [runtime |-> r, project |-> project, graph |-> graph, port |-> port]

OneGraph == {Runtime("r1", "A", "g", 17687), Runtime("r2", "B", "g", 17687)}

OneProject == {Runtime("r1", "A", "g", 17687), Runtime("r3", "A", "h", 17687)}

OneRuntime == {Runtime("r1", "A", "g", 17687), Runtime("r1", "demo", "g", 17687)}

AllSpecs == OneGraph \union OneProject \union OneRuntime
=============================================================================
