------------------------------ MODULE MCFiles -------------------------------
\* The two parts of the program that keep files: the clients with what the
\* code runner puts in /tmp, and the server with its accounts.  They share no
\* file, so one of them moves and the other rests, from the start on.
EXTENDS MCWorkbench, UserStore

VARIABLE moving  \* "clients" or "server"

FilesInit == BenchInit /\ StoreInit /\ moving \in {"clients", "server"}

FilesNext ==
    \/ moving = "clients" /\ BenchNext /\ UNCHANGED <<storeVars, moving>>
    \/ moving = "server" /\ StoreNext /\ UNCHANGED <<benchVars, moving>>

FilesSpec ==
    FilesInit /\ [][FilesNext]_<<benchVars, storeVars, moving>> /\ BenchFairness
=============================================================================
