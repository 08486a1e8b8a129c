------------------------------ MODULE Reloader ------------------------------
(***************************************************************************)
(* Start, SIGHUP reload and shutdown (pkg/reloader/reloader.go, with the   *)
(* wiring of pkg/factory/factory.go CreateServer).                         *)
(*                                                                         *)
(* Concurrent here: the operator (edits the file, sends SIGHUP, SIGTERM),  *)
(* the Go runtime that delivers SIGHUP, the loop goroutine that reads the  *)
(* file, builds a handler tree and swaps it in, and the main goroutine     *)
(* that listens and drains.                                                *)
(*                                                                         *)
(* A configuration file is abstracted to what a reload makes of it.        *)
(***************************************************************************)
EXTENDS Naturals

CONSTANTS Good,         \* contents that load and build
          Unloadable,   \* contents, or absence, that pkg.Load refuses
          Unbuildable,  \* contents that load, and on which build fails or panics
          NoConfig,     \* a nil *pkg.Config
          MaxSignals    \* bound on the SIGHUPs sent

Contents == Good \cup Unloadable \cup Unbuildable

ASSUME ReloaderAssumption ==
    /\ Good \cap Unloadable = {}
    /\ Good \cap Unbuildable = {}
    /\ Unloadable \cap Unbuildable = {}
    /\ NoConfig \notin Contents
    /\ MaxSignals \in Nat

VARIABLES
    file,       \* what the file at cfgPath holds
    proc,       \* the process: starting, created, serving or how it ended
    loop,       \* the goroutine of RunSighupLoop
    notified,   \* signal.Notify is in effect for SIGHUP
    sighup,     \* the one-place signal channel holds a signal
    stopping,   \* ctx is cancelled (SIGINT or SIGTERM)
    loaded,     \* cfg, the local variable of Reload
    snap,       \* the atomic snapshot: the number of a tree and a config
    builtFrom,  \* builtFrom[t]: the config that tree t was built from
    signals,    \* SIGHUPs received through Notify, for the bound
    attempts,   \* reload attempts; the n-th one builds tree n + 1
    fresh       \* history: a SIGHUP was received after the last edit

vars == <<file, proc, loop, notified, sighup, stopping, loaded, snap,
          builtFrom, signals, attempts, fresh>>

Alive == proc \in {"starting", "created", "serving"}

Trees == 1..(MaxSignals + 1)

Init ==
    /\ file \in Contents
    /\ proc = "starting"
    /\ loop = "none"
    /\ notified = FALSE
    /\ sighup = FALSE
    /\ stopping = FALSE
    /\ loaded = NoConfig
    /\ snap = [handler |-> 0, cfg |-> NoConfig]
    /\ builtFrom = [t \in Trees |-> NoConfig]
    /\ signals = 0
    /\ attempts = 0
    /\ fresh = FALSE

-----------------------------------------------------------------------------
(* Startup                                                                 *)

StartLoop ==
    /\ proc' = "created"
    /\ loop' = "entered"
    /\ builtFrom' = [builtFrom EXCEPT ![1] = file]
    /\ UNCHANGED <<file, notified, sighup, stopping, loaded, signals,
                   attempts, fresh>>

\* CreateServer: load, build, NewReloader, SeedConfig, start the loop.
CreateServer ==
    /\ proc = "starting"
    /\ file \in Good
    /\ snap' = [handler |-> 1, cfg |-> file]
    /\ StartLoop

\* CreateServer with a config that does not load or build: the process ends.
CreateServerFails ==
    /\ proc = "starting"
    /\ file \notin Good
    /\ proc' = "failed"
    /\ UNCHANGED <<file, loop, notified, sighup, stopping, loaded, snap,
                   builtFrom, signals, attempts, fresh>>

\* The run.Func of libhttp.NewServer opens the listener.
Listen ==
    /\ proc = "created"
    /\ proc' = "serving"
    /\ UNCHANGED <<file, loop, notified, sighup, stopping, loaded, snap,
                   builtFrom, signals, attempts, fresh>>

-----------------------------------------------------------------------------
(* The operator                                                            *)

Edit(c) ==
    /\ Alive
    /\ c # file
    /\ file' = c
    /\ fresh' = FALSE
    /\ UNCHANGED <<proc, loop, notified, sighup, stopping, loaded, snap,
                   builtFrom, signals, attempts>>

Received ==
    /\ signals' = signals + 1
    /\ fresh' = TRUE
    /\ UNCHANGED <<file, proc, loop, notified, stopping, loaded, snap,
                   builtFrom, attempts>>

\* Faulty variant: the signal channel has no buffer.
Sighup_Unbuffered ==
    /\ Alive /\ notified
    /\ signals < MaxSignals
    /\ sighup' = (sighup \/ loop = "select")
    /\ Received

\* SIGHUP under Notify: the runtime puts it in the channel, or drops it when
\* the channel is full.
Sighup ==
    /\ Alive /\ notified
    /\ signals < MaxSignals
    /\ sighup' = TRUE
    /\ Received

\* SIGHUP without Notify has its default effect: it ends the process.
SighupKills ==
    /\ Alive /\ ~notified
    /\ proc' = "killed"
    /\ UNCHANGED <<file, loop, notified, sighup, stopping, loaded, snap,
                   builtFrom, signals, attempts, fresh>>

\* SIGINT or SIGTERM, caught by run.ContextWithSig.
Shutdown ==
    /\ Alive /\ ~stopping
    /\ stopping' = TRUE
    /\ UNCHANGED <<file, proc, loop, notified, sighup, loaded, snap,
                   builtFrom, signals, attempts, fresh>>

\* The graceful shutdown of the HTTP server ends, and main with it.
Drained ==
    /\ stopping
    /\ proc \in {"created", "serving"}
    /\ proc' = "stopped"
    /\ UNCHANGED <<file, loop, notified, sighup, stopping, loaded, snap,
                   builtFrom, signals, attempts, fresh>>

-----------------------------------------------------------------------------
(* The loop goroutine                                                      *)

\* signal.Notify.
Notify ==
    /\ Alive
    /\ loop = "entered"
    /\ loop' = "select"
    /\ notified' = TRUE
    /\ UNCHANGED <<file, proc, sighup, stopping, loaded, snap, builtFrom,
                   signals, attempts, fresh>>

\* case <-sighup.
TakeSignal ==
    /\ Alive
    /\ loop = "select"
    /\ sighup
    /\ sighup' = FALSE
    /\ loop' = "load"
    /\ attempts' = attempts + 1
    /\ UNCHANGED <<file, proc, notified, stopping, loaded, snap, builtFrom,
                   signals, fresh>>

\* case <-ctx.Done(), with the deferred signal.Stop.
Exit ==
    /\ Alive
    /\ loop = "select"
    /\ stopping
    /\ loop' = "exited"
    /\ notified' = FALSE
    /\ UNCHANGED <<file, proc, sighup, stopping, loaded, snap, builtFrom,
                   signals, attempts, fresh>>

\* Reload returns, or panics under reloadWithRecover: back to the select
\* with the old snapshot.
Abandon ==
    /\ loop' = "select"
    /\ loaded' = NoConfig
    /\ UNCHANGED <<file, proc, notified, sighup, stopping, snap, builtFrom,
                   signals, attempts, fresh>>

\* pkg.Load fails on the file as it is now.
LoadFails ==
    /\ Alive
    /\ loop = "load"
    /\ file \in Unloadable
    /\ Abandon

\* pkg.Load.
Load ==
    /\ Alive
    /\ loop = "load"
    /\ file \notin Unloadable
    /\ loop' = "build"
    /\ loaded' = file
    /\ UNCHANGED <<file, proc, notified, sighup, stopping, snap, builtFrom,
                   signals, attempts, fresh>>

\* build returns an error: CreateRouterFromConfig refuses the config, or
\* sees the cancelled ctx.
BuildFails ==
    /\ Alive
    /\ loop = "build"
    /\ loaded \in Unbuildable \/ stopping
    /\ Abandon

\* Faulty variant: no recover, the panic ends the process.
BuildPanics_NoRecover ==
    /\ Alive
    /\ loop = "build"
    /\ loaded \in Unbuildable
    /\ proc' = "crashed"
    /\ UNCHANGED <<file, loop, notified, sighup, stopping, loaded, snap,
                   builtFrom, signals, attempts, fresh>>

\* build panics, reloadWithRecover recovers.
BuildPanics ==
    /\ Alive
    /\ loop = "build"
    /\ loaded \in Unbuildable
    /\ Abandon

\* The successful end of Reload around the new value of the snapshot.
Swapped(s) ==
    /\ snap' = s
    /\ builtFrom' = [builtFrom EXCEPT ![s.handler] = loaded]
    /\ loop' = "select"
    /\ loaded' = NoConfig
    /\ UNCHANGED <<file, proc, notified, sighup, stopping, signals,
                   attempts, fresh>>

\* Faulty variant: two stores, with a panic between them.
Swap_HandlerOnly ==
    /\ Alive
    /\ loop = "build"
    /\ loaded \in Good
    /\ Swapped([handler |-> attempts + 1, cfg |-> snap.cfg])

\* build returns a tree; one Store replaces handler and config.
Swap ==
    /\ Alive
    /\ loop = "build"
    /\ loaded \in Good
    /\ Swapped([handler |-> attempts + 1, cfg |-> loaded])

-----------------------------------------------------------------------------
Loop ==
    Notify \/ TakeSignal \/ Exit \/ LoadFails \/ Load \/ BuildFails
        \/ BuildPanics \/ Swap

Operator ==
    (\E c \in Contents : Edit(c)) \/ Sighup \/ SighupKills \/ Shutdown

Main == CreateServer \/ CreateServerFails \/ Listen \/ Drained

Next == Main \/ Operator \/ Loop

Spec == Init /\ [][Next]_vars

\* The loop goroutine is scheduled: each of its steps is a bounded amount of
\* work.  The operator owes the router nothing.
FairSpec == Spec /\ WF_vars(Loop)

-----------------------------------------------------------------------------
(* Properties                                                              *)

\* The types of the process's and the reloader's state; ConfigSnapshot is
\* never nil once the server exists, and tree numbers stay in their bound.
TypeOK ==
    /\ file \in Contents
    /\ proc \in {"starting", "created", "serving", "failed", "killed",
                 "stopped"}
    /\ loop \in {"none", "entered", "select", "load", "build", "exited"}
    /\ notified \in BOOLEAN
    /\ sighup \in BOOLEAN
    /\ stopping \in BOOLEAN
    /\ loaded \in Contents \cup {NoConfig}
    /\ snap \in [handler : Trees \cup {0}, cfg : Contents \cup {NoConfig}]
    /\ proc \in {"created", "serving"} => snap.handler # 0 /\ snap.cfg # NoConfig
    /\ builtFrom \in [Trees -> Contents \cup {NoConfig}]
    /\ signals \in 0..MaxSignals
    /\ attempts \in 0..MaxSignals
    /\ fresh \in BOOLEAN

\* A reload never leaves a partial or a bad configuration active: whatever
\* the file went through and however the attempts ended, the tree requests
\* are sent to was built from the config that ConfigSnapshot reports, and
\* that one loads and builds.
ActiveIsConsistent ==
    snap.handler # 0 => /\ snap.cfg \in Good
                        /\ builtFrom[snap.handler] = snap.cfg

\* No edit is missed before shutdown: when the loop is idle with an empty
\* channel and the operator has signalled since the last edit, a good file
\* is the active config, although the runtime drops signals while one is
\* pending and the file may change between the signal, the read and the swap.
NoMissedReload ==
    loop = "select" /\ ~sighup /\ ~stopping /\ fresh /\ file \in Good
        => snap.cfg = file

\* A signalled edit is applied in the end, whatever failed or panicked
\* before, unless the file changes again or the process is on its way out.
EditApplied ==
    \A c \in Good :
        (Alive /\ fresh /\ file = c)
            ~> (snap.cfg = c \/ file # c \/ stopping \/ proc = "killed")

=============================================================================
