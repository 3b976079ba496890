--------------------------- MODULE PrototypeVault ---------------------------
(***************************************************************************)
(* Scorer C's prototype vault (app/detection/tier3/prototype_vault.py).    *)
(* Every uvicorn worker holds a copy of the vault: a FAISS index, whose    *)
(* vectors are known by position only, and a parallel array of labels.     *)
(* All workers persist to the same pair of files, one file after the       *)
(* other.  An injection runs on the worker's event loop; a score runs on a *)
(* shadow thread of the same process and takes no lock, so it may find the *)
(* two arrays at any step of an injection.                                 *)
(***************************************************************************)
EXTENDS Naturals, Sequences, FiniteSets

CONSTANTS
    Workers,         \* uvicorn worker processes
    Prototypes,      \* prototype vectors
    LabelOf,         \* [Prototypes -> {0, 1}]: benign or fraud
    InitialVault,    \* Seq(Prototypes): what build_initial_prototypes.py wrote
    Cap,             \* settings.scorer_c_max_prototypes
    K,               \* neighbours a score looks at
    Torn,            \* content of a file whose writing was cut short
    Scores,          \* runs of score() on shadow threads
    MaxInjections,   \* bound on injections
    MaxFaults        \* bound on failed injections and worker crashes

ASSUME VaultAssumption ==
    /\ LabelOf \in [Prototypes -> {0, 1}]
    /\ InitialVault \in Seq(Prototypes)
    /\ Cap \in Nat
    /\ K \in Nat \ {0}
    /\ Torn \notin Seq(Prototypes) \cup Seq({0, 1})
    /\ MaxInjections \in Nat
    /\ MaxFaults \in Nat

VARIABLES
    index,       \* index[w]: the vectors of w's index, oldest first
    labels,      \* labels[w]: w's array of labels
    loaded,      \* workers whose vault is available
    pc,          \* pc[w]: the step of w's injection
    current,     \* current[w]: the prototype w is injecting, or injected last
    fileIndex,   \* the index file
    fileLabels,  \* the metadata file
    clashed,     \* workers whose present write met another worker's
    score,       \* score[s]: the state of a run of score()
    hits,        \* hits[s]: positions and vectors its search returned
    injections,  \* injections so far
    faults,      \* failed injections and crashes so far
    tainted,     \* a write was cut short, met a write or a load, or wrote what
                 \* a failure left (history)
    misloaded,   \* workers that loaded labels of other vectors (history)
    halved,      \* workers whose arrays, since loaded, a failure parted (history)
    overtaken    \* scores that overlapped an eviction (history)

memory == <<index, labels, loaded>>
files == <<fileIndex, fileLabels>>
scoring == <<score, hits>>
history == <<tainted, misloaded, halved, overtaken>>
vars == <<memory, pc, current, files, clashed, scoring, injections, faults, history>>

-----------------------------------------------------------------------------
LabelsOf(vault) == [i \in 1 .. Len(vault) |-> LabelOf[vault[i]]]

\* s[1:], of a list or an array that may be empty.
Rest(s) == IF s = <<>> THEN s ELSE Tail(s)

\* The label array says what each vector of the index is.
Matches(vault, marks) == marks = LabelsOf(vault)

\* Steps from the first byte of the index file to the last of the metadata.
Persisting == {"writingIndex", "betweenFiles", "writingLabels"}

Loading == {"loadIndex", "loadLabels"}

Steps == {"idle", "evicting", "room", "added", "labelled"} \cup Persisting \cup Loading

Goto(w, step) == pc' = [pc EXCEPT ![w] = step]

OthersPersisting(w) == \E v \in Workers \ {w} : pc[v] \in Persisting

\* A score of w that still has to look up its labels.
Pending(s, w) == score[s] = [at |-> "searched", worker |-> w]

\* s runs, or ran, on w.
ScoredBy(s, w) == score[s].at # "idle" /\ score[s].worker = w

ScoreStates ==
    [at : {"idle"}] \cup [at : {"searched"}, worker : Workers]
    \cup [at : {"right", "wrong", "unavailable"}, worker : Workers]
-----------------------------------------------------------------------------
(* inject_prototype, on the event loop of w.                               *)

\* Variant of Inject: the cap is tested for being exceeded, not for being met.
InjectOverCap(w) ==
    /\ pc[w] = "idle"
    /\ w \in loaded
    /\ injections < MaxInjections
    /\ injections' = injections + 1
    /\ \E p \in Prototypes : current' = [current EXCEPT ![w] = p]
    /\ IF Len(index[w]) > Cap /\ Len(index[w]) >= 2
       THEN /\ labels' = [labels EXCEPT ![w] = Rest(@)]
            /\ overtaken' = overtaken \cup {s \in Scores : Pending(s, w)}
            /\ Goto(w, "evicting")
       ELSE /\ UNCHANGED <<labels, overtaken>>
            /\ Goto(w, "room")
    /\ UNCHANGED <<index, loaded, files, clashed, scoring, faults, tainted, misloaded,
                   halved>>

\* _evict_oldest drops the oldest label first; an index of one vector is kept.
Inject(w) ==
    /\ pc[w] = "idle"
    /\ w \in loaded
    /\ injections < MaxInjections
    /\ injections' = injections + 1
    /\ \E p \in Prototypes : current' = [current EXCEPT ![w] = p]
    /\ IF Len(index[w]) >= Cap /\ Len(index[w]) >= 2
       THEN /\ labels' = [labels EXCEPT ![w] = Rest(@)]
            /\ overtaken' = overtaken \cup {s \in Scores : Pending(s, w)}
            /\ Goto(w, "evicting")
       ELSE /\ UNCHANGED <<labels, overtaken>>
            /\ Goto(w, "room")
    /\ UNCHANGED <<index, loaded, files, clashed, scoring, faults, tainted, misloaded,
                   halved>>

\* Variant of SwapIndex: the rebuilt index lacks the newest vector, not the oldest.
SwapIndexDropsNewest(w) ==
    /\ pc[w] = "evicting"
    /\ index' = [index EXCEPT ![w] = SubSeq(@, 1, Len(@) - 1)]
    /\ Goto(w, "room")
    /\ UNCHANGED <<labels, loaded, current, files, clashed, scoring, injections, faults, history>>

\* The rebuilt index takes the place of the old one.
SwapIndex(w) ==
    /\ pc[w] = "evicting"
    /\ index' = [index EXCEPT ![w] = Rest(@)]
    /\ Goto(w, "room")
    /\ UNCHANGED <<labels, loaded, current, files, clashed, scoring, injections, faults, history>>

AddVector(w) ==
    /\ pc[w] = "room"
    /\ index' = [index EXCEPT ![w] = Append(@, current[w])]
    /\ Goto(w, "added")
    /\ UNCHANGED <<labels, loaded, current, files, clashed, scoring, injections, faults, history>>

AddLabel(w) ==
    /\ pc[w] = "added"
    /\ labels' = [labels EXCEPT ![w] = Append(@, LabelOf[current[w]])]
    /\ Goto(w, "labelled")
    /\ UNCHANGED <<index, loaded, current, files, clashed, scoring, injections, faults, history>>
\* Rebuilding, adding or np.append raises (no memory): inject_prototype logs it
\* and returns False.  Nothing is undone: what was done to one array only, stays.
InjectionFails(w) ==
    /\ pc[w] \in {"evicting", "room", "added"}
    /\ faults < MaxFaults
    /\ faults' = faults + 1
    /\ halved' = IF pc[w] = "room" THEN halved ELSE halved \cup {w}
    /\ Goto(w, "idle")
    /\ UNCHANGED <<memory, current, files, clashed, scoring, injections, tainted, misloaded,
                   overtaken>>
-----------------------------------------------------------------------------
(* The two files, which every worker overwrites in place.                  *)

\* w opens a file: every other worker that is writing the same one clashes.
Open(w, step) ==
    LET others == {v \in Workers \ {w} : pc[v] = step}
    IN  clashed' = IF others = {} THEN clashed \ {w} ELSE clashed \cup others \cup {w}

\* What a file holds once w has closed it; a mixture of two writes is Torn.
Closed(w, content) == IF w \in clashed THEN {content, Torn} ELSE {content}

StartIndexWrite(w) ==
    /\ pc[w] = "labelled"
    /\ fileIndex' = Torn
    /\ Open(w, "writingIndex")
    /\ tainted' = \/ tainted \/ w \in halved
                  \/ \E v \in Workers \ {w} : pc[v] \in Persisting \cup {"loadLabels"}
    /\ Goto(w, "writingIndex")
    /\ UNCHANGED <<memory, current, fileLabels, scoring, injections, faults, misloaded,
                   halved, overtaken>>

FinishIndexWrite(w) ==
    /\ pc[w] = "writingIndex"
    /\ fileIndex' \in Closed(w, index[w])
    /\ Goto(w, "betweenFiles")
    /\ UNCHANGED <<memory, current, fileLabels, clashed, scoring, injections, faults, history>>

StartLabelsWrite(w) ==
    /\ pc[w] = "betweenFiles"
    /\ fileLabels' = Torn
    /\ Open(w, "writingLabels")
    /\ Goto(w, "writingLabels")
    /\ UNCHANGED <<memory, current, fileIndex, scoring, injections, faults, history>>

\* Variant of FinishLabelsWrite: the labels that were there before the injection.
FinishLabelsWriteStale(w) ==
    /\ pc[w] = "writingLabels"
    /\ fileLabels' = SubSeq(labels[w], 1, Len(labels[w]) - 1)
    /\ Goto(w, "idle")
    /\ UNCHANGED <<memory, current, fileIndex, clashed, scoring, injections, faults, history>>

FinishLabelsWrite(w) ==
    /\ pc[w] = "writingLabels"
    /\ fileLabels' \in Closed(w, labels[w])
    /\ Goto(w, "idle")
    /\ UNCHANGED <<memory, current, fileIndex, clashed, scoring, injections, faults, history>>

\* A write raises (a full disk): inject_prototype returns False, the vector
\* stays in memory and the file stays as it is.
WriteFails(w) ==
    /\ pc[w] \in {"labelled", "writingIndex", "betweenFiles", "writingLabels"}
    /\ faults < MaxFaults
    /\ faults' = faults + 1
    /\ tainted' = (tainted \/ pc[w] \in Persisting)
    /\ Goto(w, "idle")
    /\ UNCHANGED <<memory, current, files, clashed, scoring, injections, misloaded,
                   halved, overtaken>>
-----------------------------------------------------------------------------
(* A worker dies, and load() reads one file after the other in its         *)
(* successor; a file that cannot be read leaves the vault unavailable.     *)
(* What is recorded of the worker and its scores goes with it.             *)

Restart(w) ==
    /\ faults < MaxFaults
    /\ faults' = faults + 1
    /\ loaded' = loaded \ {w}
    /\ index' = [index EXCEPT ![w] = <<>>]
    /\ labels' = [labels EXCEPT ![w] = <<>>]
    /\ tainted' = (tainted \/ pc[w] \in Persisting)
    /\ score' = [s \in Scores |-> IF ScoredBy(s, w) THEN [at |-> "idle"] ELSE score[s]]
    /\ misloaded' = misloaded \ {w}
    /\ halved' = halved \ {w}
    /\ Goto(w, "loadIndex")
    /\ UNCHANGED <<current, files, clashed, hits, injections, overtaken>>

\* Variant of LoadIndex: a file that cannot be read is not noticed.
LoadIndexUnchecked(w) ==
    /\ pc[w] = "loadIndex"
    /\ index' = [index EXCEPT ![w] = fileIndex]
    /\ Goto(w, "loadLabels")
    /\ tainted' = (tainted \/ OthersPersisting(w))
    /\ UNCHANGED <<labels, loaded, current, files, clashed, scoring, injections, faults,
                   misloaded, halved, overtaken>>

LoadIndex(w) ==
    /\ pc[w] = "loadIndex"
    /\ IF fileIndex = Torn
       THEN Goto(w, "idle") /\ UNCHANGED index
       ELSE Goto(w, "loadLabels") /\ index' = [index EXCEPT ![w] = fileIndex]
    /\ tainted' = (tainted \/ OthersPersisting(w))
    /\ UNCHANGED <<labels, loaded, current, files, clashed, scoring, injections, faults,
                   misloaded, halved, overtaken>>

LoadLabels(w) ==
    /\ pc[w] = "loadLabels"
    /\ Goto(w, "idle")
    /\ IF fileLabels = Torn
       THEN UNCHANGED <<labels, loaded, misloaded>>
       ELSE /\ labels' = [labels EXCEPT ![w] = fileLabels]
            /\ loaded' = loaded \cup {w}
            /\ misloaded' = IF Matches(index[w], fileLabels)
                            THEN misloaded ELSE misloaded \cup {w}
    /\ UNCHANGED <<index, current, files, clashed, scoring, injections, faults,
                   tainted, halved, overtaken>>
-----------------------------------------------------------------------------
(* score, on a shadow thread of w.                                         *)

\* The index is searched: the positions of the nearest vectors are known.
\* Any K of them may be nearest; a search that races an add can do no worse.
Search(s, w) ==
    /\ score[s] = [at |-> "idle"]
    /\ w \in loaded
    /\ Len(index[w]) >= 1
    /\ \E P \in SUBSET (1 .. Len(index[w])) :
          /\ Cardinality(P) = IF Len(index[w]) < K THEN Len(index[w]) ELSE K
          /\ hits' = [hits EXCEPT ![s] = {<<i, index[w][i]>> : i \in P}]
    /\ score' = [score EXCEPT ![s] = [at |-> "searched", worker |-> w]]
    /\ overtaken' = IF pc[w] = "evicting" THEN overtaken \cup {s} ELSE overtaken \ {s}
    /\ UNCHANGED <<memory, pc, current, files, clashed, injections, faults, tainted,
                   misloaded, halved>>

\* Variant of ReadLabels: a position is taken for one counted from the newest.
ReadLabelsReversed(s, w) ==
    /\ Pending(s, w)
    /\ score' = [score EXCEPT ![s] =
          [worker |-> w,
           at |-> IF \E h \in hits[s] : h[1] > Len(labels[w]) THEN "unavailable"
                  ELSE IF \A h \in hits[s] :
                             labels[w][Len(labels[w]) + 1 - h[1]] = LabelOf[h[2]]
                  THEN "right"
                  ELSE "wrong"]]
    /\ UNCHANGED <<memory, pc, current, files, clashed, hits, injections, faults, history>>

\* The positions are looked up in the label array of the moment; a position
\* beyond its end raises, and the score is reported as unavailable.
ReadLabels(s, w) ==
    /\ Pending(s, w)
    /\ score' = [score EXCEPT ![s] =
          [worker |-> w,
           at |-> IF \E h \in hits[s] : h[1] > Len(labels[w]) THEN "unavailable"
                  ELSE IF \A h \in hits[s] : labels[w][h[1]] = LabelOf[h[2]] THEN "right"
                  ELSE "wrong"]]
    /\ UNCHANGED <<memory, pc, current, files, clashed, hits, injections, faults, history>>
-----------------------------------------------------------------------------
Init ==
    /\ index = [w \in Workers |-> InitialVault]
    /\ labels = [w \in Workers |-> LabelsOf(InitialVault)]
    /\ loaded = Workers
    /\ pc = [w \in Workers |-> "idle"]
    /\ current \in [Workers -> Prototypes]
    /\ fileIndex = InitialVault
    /\ fileLabels = LabelsOf(InitialVault)
    /\ clashed = {}
    /\ score = [s \in Scores |-> [at |-> "idle"]]
    /\ hits = [s \in Scores |-> {}]
    /\ injections = 0
    /\ faults = 0
    /\ tainted = FALSE
    /\ misloaded = {}
    /\ halved = {}
    /\ overtaken = {}

Injecting(w) ==
    \/ Inject(w) \/ SwapIndex(w) \/ AddVector(w) \/ AddLabel(w) \/ InjectionFails(w)
    \/ StartIndexWrite(w) \/ FinishIndexWrite(w)
    \/ StartLabelsWrite(w) \/ FinishLabelsWrite(w) \/ WriteFails(w)

Next ==
    \E w \in Workers :
        \/ Injecting(w)
        \/ Restart(w) \/ LoadIndex(w) \/ LoadLabels(w)
        \/ \E s \in Scores : Search(s, w) \/ ReadLabels(s, w)

Spec == Init /\ [][Next]_vars
-----------------------------------------------------------------------------
(* Properties.                                                             *)

TypeOK ==
    /\ index \in [Workers -> Seq(Prototypes)]
    /\ labels \in [Workers -> Seq({0, 1})]
    /\ loaded \subseteq Workers
    /\ pc \in [Workers -> Steps]
    /\ current \in [Workers -> Prototypes]
    /\ fileIndex \in Seq(Prototypes) \cup {Torn}
    /\ fileLabels \in Seq({0, 1}) \cup {Torn}
    /\ clashed \subseteq Workers
    /\ score \in [Scores -> ScoreStates]
    /\ hits \in [Scores -> SUBSET (Nat \X Prototypes)]
    /\ injections \in 0 .. MaxInjections
    /\ faults \in 0 .. MaxFaults
    /\ tainted \in BOOLEAN
    /\ misloaded \subseteq Workers
    /\ halved \subseteq Workers
    /\ overtaken \subseteq Scores

\* The size a vault may have: a cap below two leaves two, and a vault that was
\* built larger never grows.
Bounded(n) == n <= Cap \/ n <= 2 \/ n <= Len(InitialVault)

\* The cap bounds every copy of the vault and the file, through evictions,
\* failed injections and restarts.
SizeBounded ==
    /\ \A w \in Workers : Bounded(Len(index[w]))
    /\ fileIndex # Torn => Bounded(Len(fileIndex))

\* Between injections the labels of an available vault belong to its vectors,
\* also when a write of the last one failed, with two exceptions that last until
\* the worker restarts.  load() may have been given files that do not agree; and
\* inject_prototype may have failed after _evict_oldest dropped the label or
\* before np.append added it.  Then the vault stays in use a label short, and no
\* later injection, eviction or failure makes up for that one.
MemoryAligned ==
    \A w \in loaded \ misloaded :
        pc[w] \in {"idle", "labelled"} \cup Persisting =>
            IF w \in halved THEN Len(labels[w]) < Len(index[w])
                            ELSE Matches(index[w], labels[w])

\* As long as no write is cut short, overlaps another worker's write or load, or
\* comes from a worker whose arrays a failure parted, the files agree whenever
\* nobody is writing them and no worker has loaded files that do not: cuts,
\* overlaps and halfway failures are the only ways to spoil the vault.
FilesAligned ==
    ~tainted =>
        /\ misloaded = {}
        /\ (\A w \in Workers : pc[w] \notin Persisting) =>
              fileIndex # Torn /\ Matches(fileIndex, fileLabels)

\* Only an eviction, files that did not agree, or an injection that failed
\* halfway makes a score use another vector's label: adding a vector at worst
\* makes it unavailable.
WrongScoreNeedsEviction ==
    \A s \in Scores :
        score[s].at = "wrong" =>
            s \in overtaken \/ score[s].worker \in misloaded \cup halved
=============================================================================
