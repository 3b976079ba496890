----------------------------- MODULE ModelCache -----------------------------
(***************************************************************************)
(* The models of the XGBoost scorer (app/detection/tier3/ensemble.py):     *)
(* three globals loaded on the first call, by whichever thread comes       *)
(* first, under double-checked locking; and the rollback endpoint          *)
(* (app/utils/model_integrity.py, app/api/v1/model_admin.py), which        *)
(* empties the globals from another thread and takes no lock.  A step is a *)
(* statement that reads or writes a global.                                *)
(***************************************************************************)
EXTENDS Naturals, FiniteSets

CONSTANTS
    Threads,    \* threads that score, or fetch the base model for SHAP
    Files,      \* the model files present, of "cal", "base", "legacy"
    MaxCalls,   \* bound on the calls
    MaxResets,  \* bound on the rollbacks
    Versions,   \* what a rollback may name: [digest, sidecar], Nothing if absent
    Nothing     \* Python's None

VARIABLES
    calibrated,  \* _calibrated_model: "cal" or Nothing
    base,        \* _base_model: "cal" (its inner estimator), "base", "legacy",
                 \*   "empty" (a Booster that holds no model) or Nothing
    legacy,      \* _legacy_model: "legacy", "empty" or Nothing
    lock,        \* who holds _load_lock
    at,          \* [Threads -> where the thread is]
    reply,      \* [Threads -> what its last call answered with]
    admin,       \* how far the rollback is
    loaded,      \* loads that left a model in the globals
    calls,       \* calls so far
    resets       \* rollbacks so far

modelVars == <<calibrated, base, legacy, lock, at, reply, admin, loaded, calls, resets>>
globals == <<calibrated, base, legacy>>
counters == <<loaded, calls, resets>>

ASSUME ModelAssumption ==
    /\ Files \subseteq {"cal", "base", "legacy"}
    /\ MaxCalls \in Nat /\ MaxResets \in Nat
    /\ Nothing \notin Threads \cup {"cal", "base", "legacy", "empty"}

ModelInit ==
    /\ calibrated = Nothing /\ base = Nothing /\ legacy = Nothing
    /\ lock = Nothing
    /\ at = [t \in Threads |-> "idle"]
    /\ reply = [t \in Threads |-> Nothing]
    /\ admin = "idle"
    /\ loaded = 0 /\ calls = 0 /\ resets = 0

Cached == calibrated # Nothing \/ base # Nothing

\* Thread t moves on, the globals as they are.
Move(t, place) ==
    /\ at' = [at EXCEPT ![t] = place]
    /\ UNCHANGED <<globals, reply, admin, counters>>

Call(t) ==
    /\ at[t] = "idle" /\ calls < MaxCalls
    /\ at' = [at EXCEPT ![t] = "check"]
    /\ calls' = calls + 1
    /\ UNCHANGED <<globals, lock, reply, admin, loaded, resets>>

\* The check without the lock.
Check(t) ==
    /\ at[t] = "check"
    /\ Move(t, IF Cached THEN "loaded" ELSE "lock")
    /\ UNCHANGED lock

\* Variant of Acquire: a waiter does not look again once it has the lock.
AcquireUnchecked(t) ==
    /\ at[t] = "lock" /\ lock = Nothing
    /\ lock' = t
    /\ Move(t, "cal")

\* The lock is taken and the check repeated under it.
Acquire(t) ==
    /\ at[t] = "lock" /\ lock = Nothing
    /\ lock' = t
    /\ Move(t, IF Cached THEN "release" ELSE "cal")

Release(t) ==
    /\ at[t] = "release"
    /\ lock' = Nothing
    /\ Move(t, "loaded")

\* A file that is absent or cannot be read: the next one is tried.
Absent(t) ==
    \E file \in {"cal", "base", "legacy"} :
        /\ at[t] = file
        /\ file = "cal" \/ file \notin Files
        /\ Move(t, CASE file = "cal" -> "base" [] file = "base" -> "legacy"
                     [] file = "legacy" -> "release")
        /\ UNCHANGED lock

LoadCalibrated(t) ==
    /\ at[t] = "cal" /\ "cal" \in Files
    /\ calibrated' = "cal"
    /\ at' = [at EXCEPT ![t] = "estimator"]
    /\ UNCHANGED <<base, legacy, lock, reply, admin, counters>>

\* The inner estimator is taken from the global, which may be empty again: an
\* exception, and the base file is tried.
TakeEstimator(t) ==
    /\ at[t] = "estimator"
    /\ IF calibrated = Nothing
       THEN Move(t, "base") /\ UNCHANGED lock
       ELSE /\ base' = "cal" /\ loaded' = loaded + 1
            /\ at' = [at EXCEPT ![t] = "release"]
            /\ UNCHANGED <<calibrated, legacy, lock, reply, admin, calls, resets>>

\* An empty Booster is in the global before its file is read.
NewBase(t) ==
    /\ at[t] = "base" /\ "base" \in Files
    /\ base' = "empty"
    /\ at' = [at EXCEPT ![t] = "read base"]
    /\ UNCHANGED <<calibrated, legacy, lock, reply, admin, counters>>

\* The method is called on the global: it fails on None and may fail on the
\* file, which leaves the empty Booster where it is.
ReadBase(t) ==
    /\ at[t] = "read base"
    /\ \/ Move(t, "legacy") /\ UNCHANGED lock
       \/ /\ base # Nothing
          /\ base' = "base" /\ loaded' = loaded + 1
          /\ at' = [at EXCEPT ![t] = "release"]
          /\ UNCHANGED <<calibrated, legacy, lock, reply, admin, calls, resets>>

NewLegacy(t) ==
    /\ at[t] = "legacy" /\ "legacy" \in Files
    /\ legacy' = "empty"
    /\ at' = [at EXCEPT ![t] = "read legacy"]
    /\ UNCHANGED <<calibrated, base, lock, reply, admin, counters>>

ReadLegacy(t) ==
    /\ at[t] = "read legacy"
    /\ \/ Move(t, "release") /\ UNCHANGED lock
       \/ /\ legacy # Nothing
          /\ legacy' = "legacy"
          /\ at' = [at EXCEPT ![t] = "legacy is base"]
          /\ UNCHANGED <<calibrated, base, lock, reply, admin, counters>>

LegacyIsBase(t) ==
    /\ at[t] = "legacy is base"
    /\ base' = legacy
    /\ loaded' = IF legacy = Nothing THEN loaded ELSE loaded + 1
    /\ at' = [at EXCEPT ![t] = "release"]
    /\ UNCHANGED <<calibrated, legacy, lock, reply, admin, calls, resets>>

Respond(t, with) ==
    /\ reply' = [reply EXCEPT ![t] = with]
    /\ at' = [at EXCEPT ![t] = "idle"]
    /\ UNCHANGED <<globals, lock, admin, counters>>

\* get_base_model, for SHAP.
GetBaseModel(t) == at[t] = "loaded" /\ Respond(t, [use |-> "shap", model |-> base])

\* score: the test of a global and its use are two reads.
Choose(t) ==
    /\ at[t] \in {"loaded", "choose base"}
    /\ Move(t, IF at[t] = "loaded" /\ calibrated # Nothing THEN "use cal"
               ELSE IF base # Nothing THEN "use base" ELSE "heuristic")
    /\ UNCHANGED lock

\* A model that is there may refuse the features; one that is gone, or an
\* empty Booster, always does.
UseCalibrated(t) ==
    /\ at[t] = "use cal"
    /\ \/ calibrated # Nothing /\ Respond(t, [use |-> "score", model |-> "calibrated"])
       \/ Move(t, "choose base") /\ UNCHANGED lock

UseBase(t) ==
    /\ at[t] = "use base"
    /\ \/ base \notin {Nothing, "empty"} /\ Respond(t, [use |-> "score", model |-> base])
       \/ Move(t, "heuristic") /\ UNCHANGED lock

Heuristic(t) ==
    at[t] = "heuristic" /\ Respond(t, [use |-> "score", model |-> "heuristic"])

\* The file exists, has a hash stored beside it, and hashes to it.
Verified(v) == v.digest # Nothing /\ v.sidecar = v.digest

\* activate_model_version: the file named is verified, and never loaded; the
\* globals are emptied one after the other.
Activate ==
    /\ admin = "idle" /\ resets < MaxResets
    /\ \E v \in Versions : Verified(v)
    /\ admin' = "base" /\ calibrated' = Nothing /\ resets' = resets + 1
    /\ UNCHANGED <<base, legacy, lock, at, reply, loaded, calls>>

ResetBase ==
    /\ admin = "base"
    /\ admin' = "legacy" /\ base' = Nothing
    /\ UNCHANGED <<calibrated, legacy, lock, at, reply, counters>>

ResetLegacy ==
    /\ admin = "legacy"
    /\ admin' = "idle" /\ legacy' = Nothing
    /\ UNCHANGED <<calibrated, base, lock, at, reply, counters>>

LoadStep(t) ==
    \/ Check(t) \/ Acquire(t) \/ Release(t) \/ Absent(t)
    \/ LoadCalibrated(t) \/ TakeEstimator(t) \/ NewBase(t) \/ ReadBase(t)
    \/ NewLegacy(t) \/ ReadLegacy(t) \/ LegacyIsBase(t)

UseStep(t) ==
    GetBaseModel(t) \/ Choose(t) \/ UseCalibrated(t) \/ UseBase(t) \/ Heuristic(t)

ModelNext ==
    \/ \E t \in Threads : Call(t) \/ LoadStep(t) \/ UseStep(t)
    \/ Activate \/ ResetBase \/ ResetLegacy
-----------------------------------------------------------------------------
Places == {"idle", "check", "lock", "cal", "estimator", "base", "read base", "legacy",
           "read legacy", "legacy is base", "release", "loaded", "choose base",
           "use cal", "use base", "heuristic"}

ModelTypeOK ==
    /\ calibrated \in {"cal", Nothing}
    /\ base \in {"cal", "base", "legacy", "empty", Nothing}
    /\ legacy \in {"legacy", "empty", Nothing}
    /\ lock \in Threads \cup {Nothing}
    /\ at \in [Threads -> Places]
    /\ admin \in {"idle", "base", "legacy"}

\* However many threads meet the empty globals at once, the files are loaded
\* once, and once more for every rollback, even if it falls into a load
\* (ensemble.py:48-60, model_integrity.py:157-159).
LoadedOnce == loaded <= resets + 1
=============================================================================
