----------------------------- MODULE LogConsole -----------------------------
(***************************************************************************)
(* The debugger's log panel: a sink that keeps the last records of every   *)
(* thread, and the console that draws those its filters let through, by    *)
(* index.                                                                  *)
(*   any thread   logs a record; the sink's lock makes that one step.      *)
(*   window       draws in three steps: the toolbar's buttons, then the    *)
(*                counts for its chips and the filters, then the list.     *)
(* The lock is taken for each of the three anew, so records come and go    *)
(* between them; and between two draws, which are far apart while the      *)
(* panel is hidden.  A record is its level and its text.                   *)
(* A definition marked FAULTY is a defect that the property at the end     *)
(* catches; the specification does not use it.                             *)
(***************************************************************************)
EXTENDS Naturals, FiniteSets, Sequences, Ordering

CONSTANTS
    Levels,            \* severities
    Trace,             \* the one that is hidden at first
    Texts,             \* what is logged
    Buffered,          \* _capacity of the sink
    MaxVersion         \* bound: records logged and buffers cleared

ASSUME LogConsoleAssumption ==
    /\ Trace \in Levels
    /\ Buffered \in Nat \ {0}      \* the constructor makes a zero one
    /\ MaxVersion \in Nat

VARIABLES
    records, counts, version,          \* of the sink, under its lock
    levelMask,                         \* _level_mask, as the set of shown levels
    filter,                            \* _filter, as the texts it lets through
    visible,                           \* _visible: indices into records
    visibleVersion, visibleDirty,      \* _visible_version, _visible_dirty
    drawing                            \* the window: "toolbar", "chips", "list"

sinkVars == <<records, counts, version>>
cacheVars == <<visible, visibleVersion, visibleDirty>>
logVars == <<sinkVars, levelMask, filter, cacheVars, drawing>>

Record == [level : Levels, text : Texts]

\* Nothing typed lets every text through.
Filters == {Texts} \cup {{t} : t \in Texts}

LogInit ==
    /\ records = <<>> /\ counts = [l \in Levels |-> 0] /\ version = 0
    /\ levelMask = Levels \ {Trace}
    /\ filter = Texts
    /\ visible = <<>> /\ visibleVersion = 0 /\ visibleDirty = TRUE
    /\ drawing = "toolbar"

\* Past the capacity the oldest record leaves the buffer and its level's count.
Sink(r) ==
    LET counted == [counts EXCEPT ![r.level] = @ + 1]
        full    == Len(records) = Buffered
    IN  /\ version < MaxVersion
        /\ records' = Append(IF full THEN Tail(records) ELSE records, r)
        /\ counts' = IF full THEN [counted EXCEPT ![Head(records).level] = @ - 1]
                             ELSE counted
        /\ version' = version + 1
        /\ UNCHANGED <<levelMask, filter, cacheVars, drawing>>

Clear ==
    /\ version < MaxVersion
    /\ records' = <<>> /\ counts' = [l \in Levels |-> 0]
    /\ version' = version + 1

\* Options and Copy change nothing here; Clear empties the sink.
Buttons ==
    /\ drawing = "toolbar"
    /\ Clear \/ UNCHANGED sinkVars
    /\ drawing' = "chips"
    /\ UNCHANGED <<levelMask, filter, cacheVars>>

\* The chips and the filter mark the view dirty.
FilterChanges ==
    /\ \/ \E l \in Levels :
            levelMask' = IF l \in levelMask THEN levelMask \ {l} ELSE levelMask \cup {l}
       \/ UNCHANGED levelMask
    /\ \/ filter' \in Filters /\ visibleDirty' = TRUE
       \/ UNCHANGED filter /\ visibleDirty' = (visibleDirty \/ levelMask' # levelMask)

\* A list that is scrolled out of its window is not drawn.
Chips ==
    /\ drawing = "chips"
    /\ FilterChanges
    /\ drawing' \in {"list", "toolbar"}
    /\ UNCHANGED <<sinkVars, visible, visibleVersion>>

Passes(r) == r.level \in levelMask /\ r.text \in filter

RebuildVisible == InOrder({i \in DOMAIN records : Passes(records[i])})

DrawListBySize ==                                               \* FAULTY
    /\ drawing = "list"
    /\ IF visibleDirty \/ visibleVersion # Len(records)
       THEN visible' = RebuildVisible /\ visibleVersion' = Len(records)
            /\ visibleDirty' = FALSE
       ELSE UNCHANGED cacheVars
    /\ drawing' = "toolbar"
    /\ UNCHANGED <<sinkVars, levelMask, filter>>

\* Under the lock: the rows are rebuilt unless neither the buffer nor a filter has
\* changed, then drawn, and copied when that was asked for.
DrawList ==
    /\ drawing = "list"
    /\ IF visibleDirty \/ visibleVersion # version
       THEN visible' = RebuildVisible /\ visibleVersion' = version /\ visibleDirty' = FALSE
       ELSE UNCHANGED cacheVars
    /\ drawing' = "toolbar"
    /\ UNCHANGED <<sinkVars, levelMask, filter>>

LogNext == (\E r \in Record : Sink(r)) \/ Buttons \/ Chips \/ DrawList

LogSpec == LogInit /\ [][LogNext]_logVars

-----------------------------------------------------------------------------
(* Properties *)

\* The chips' numbers are those of the records that are still buffered.
CountsAgree ==
    \A l \in Levels :
        counts[l] = Cardinality({i \in DOMAIN records : records[i].level = l})

\* The rows are every record the filters let through, oldest first.
RowsAre(rows) ==
    /\ {rows[i] : i \in DOMAIN rows} = {i \in DOMAIN records : Passes(records[i])}
    /\ \A i, j \in DOMAIN rows : i < j => rows[i] < rows[j]

\* log_console.cc:151: whenever the list is drawn, its rows are the buffer's as it
\* is then, however records came, left or were cleared and filters changed since the
\* rows were collected; and the counts were kept up with it.
RowsAreFiltered ==
    /\ []CountsAgree
    /\ [][drawing = "list" /\ drawing' = "toolbar" => RowsAre(visible')]_logVars
=============================================================================
