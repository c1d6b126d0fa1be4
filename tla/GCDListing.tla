----------------------------- MODULE GCDListing -----------------------------
(***************************************************************************)
(* How Google Drive's ListFiles lists the chunks and the fossils: one        *)
(* goroutine for each directory sends the names of the subdirectories it     *)
(* finds, then "" when its files are in the list, over channels without a    *)
(* buffer, to a loop that starts at most Threads of them at a time.  A        *)
(* goroutine takes the id of its directory from the cache, into which the     *)
(* one that found the directory puts it after having sent the name.          *)
(***************************************************************************)
EXTENDS Naturals, Sequences

CONSTANTS Directories,  \* the directories; each stands for the files in it, too
          Roots,        \* the ones to start with, in order: chunks and fossils
          Entries,      \* the subdirectories of each, in the order they are listed
          Threads       \* numberOfThreads

ASSUME DirectoriesAssumption ==
    /\ Roots \in Seq(Directories) /\ Entries \in [Directories -> Seq(Directories)]
    /\ Threads \in Nat \ {0}

VARIABLES main,           \* the loop: "loop", at the "select", or what ListFiles returns: "ok", "error"
          parents,        \* the directories to be listed
          activeWorkers,
          lister,         \* the goroutine of each directory
          sent,           \* how many names it has sent
          idCache,        \* the directories whose ids are known
          allFiles        \* the directories whose files are in the list

listingVars == <<main, parents, activeWorkers, lister, sent, idCache, allFiles>>

RootSet == {Roots[i] : i \in DOMAIN Roots}

\* The ids of chunks and fossils are looked up when the storage is created; others
\* may be known from what the client did before.
ListingInit ==
    /\ main = "loop" /\ parents = Roots /\ activeWorkers = 0
    /\ lister = [d \in Directories |-> "none"]
    /\ sent = [d \in Directories |-> 0]
    /\ \E S \in SUBSET (Directories \ RootSet) : idCache = RootSet \union S
    /\ allFiles = {}

-----------------------------------------------------------------------------
Becomes(d, pc) == lister' = [lister EXCEPT ![d] = pc]

\* What a goroutine does next when it has sent n names: send another, or add its files.
Following(d, n) == IF n < Len(Entries[d]) THEN "send" ELSE "append"

\* Mutant: without an id there is nothing to list.
LookUpNothing(d) ==
    /\ lister[d] = "start"
    /\ Becomes(d, IF d \in idCache THEN "list" ELSE "report")
    /\ UNCHANGED <<main, parents, activeWorkers, sent, idCache, allFiles>>

\* Without an id the goroutine returns.
LookUp(d) ==
    /\ lister[d] = "start"
    /\ Becomes(d, IF d \in idCache THEN "list" ELSE "gone")
    /\ UNCHANGED <<main, parents, activeWorkers, sent, idCache, allFiles>>

\* The pages of the directory, or an error after the retries.
List(d) ==
    /\ lister[d] = "list"
    /\ \E pc \in {Following(d, 0), "fail"} : Becomes(d, pc)
    /\ UNCHANGED <<main, parents, activeWorkers, sent, idCache, allFiles>>

\* The id is saved when the name has been received already.
SaveID(d) ==
    /\ lister[d] = "save"
    /\ idCache' = idCache \union {Entries[d][sent[d]]}
    /\ Becomes(d, Following(d, sent[d]))
    /\ UNCHANGED <<main, parents, activeWorkers, sent, allFiles>>

AppendFiles(d) ==
    /\ lister[d] = "append"
    /\ allFiles' = allFiles \union {d}
    /\ Becomes(d, "report")
    /\ UNCHANGED <<main, parents, activeWorkers, sent, idCache>>

Work(d) == LookUp(d) \/ List(d) \/ SaveID(d) \/ AppendFiles(d)

-----------------------------------------------------------------------------
MayStart == parents # << >> /\ activeWorkers < Threads

\* One goroutine is started, and then something must be received before the next.
StartWorker ==
    /\ main = "loop" /\ MayStart
    /\ main' = "select"
    /\ parents' = Tail(parents)
    /\ activeWorkers' = activeWorkers + 1
    /\ Becomes(Head(parents), "start")
    /\ UNCHANGED <<sent, idCache, allFiles>>

Wait ==
    /\ main = "loop" /\ ~MayStart /\ activeWorkers > 0
    /\ main' = "select"
    /\ UNCHANGED <<parents, activeWorkers, lister, sent, idCache, allFiles>>

ReceiveName(d) ==
    /\ main = "select" /\ lister[d] = "send"
    /\ main' = "loop"
    /\ sent' = [sent EXCEPT ![d] = @ + 1]
    /\ parents' = Append(parents, Entries[d][sent[d] + 1])
    /\ Becomes(d, "save")
    /\ UNCHANGED <<activeWorkers, idCache, allFiles>>

ReceiveEnd(d) ==
    /\ main = "select" /\ lister[d] = "report"
    /\ main' = "loop"
    /\ activeWorkers' = activeWorkers - 1
    /\ Becomes(d, "ended")
    /\ UNCHANGED <<parents, sent, idCache, allFiles>>

\* The other goroutines are left to themselves: nobody receives from them any more.
ReceiveError(d) ==
    /\ main = "select" /\ lister[d] = "fail"
    /\ main' = "error"
    /\ Becomes(d, "ended")
    /\ UNCHANGED <<parents, activeWorkers, sent, idCache, allFiles>>

Return ==
    /\ main = "loop" /\ parents = << >> /\ activeWorkers = 0
    /\ main' = "ok"
    /\ UNCHANGED <<parents, activeWorkers, lister, sent, idCache, allFiles>>

Loop ==
    \/ StartWorker
    \/ Wait
    \/ \E d \in Directories : ReceiveName(d) \/ ReceiveEnd(d) \/ ReceiveError(d)
    \/ Return

Returned == main \in {"ok", "error"}

\* Nothing is left to do, or a goroutine that is waited for is gone.
Stopped ==
    /\ Returned \/ \E d \in Directories : lister[d] = "gone"
    /\ UNCHANGED listingVars

ListingNext == (\E d \in Directories : Work(d)) \/ Loop \/ Stopped

\* Goroutines run, and each request of one ends.
ListingFairness == (\A d \in Directories : WF_listingVars(Work(d))) /\ WF_listingVars(Loop)

ListingSpec == ListingInit /\ [][ListingNext]_listingVars /\ ListingFairness

-----------------------------------------------------------------------------
\* ListFiles returns no list but one of the files of every directory below chunks
\* and fossils, whichever goroutines ran while others had just sent a name, had not
\* saved its id, or had not added their files.
ListingWhole == main = "ok" => allFiles = Directories

\* ListFiles returns.
ListFilesReturns == <>Returned
=============================================================================
