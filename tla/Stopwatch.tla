----------------------------- MODULE Stopwatch -----------------------------
(***************************************************************************)
(* The Stopwatch of common/src/tools/c3performance.ts: watches with names, *)
(* the tasks they measure, and the summary all watches of a name share.    *)
(* Calls happen one after the other; the n-th at time n.  The order in     *)
(* which a watch stops its tasks is a parameter, so that what the class    *)
(* does can be compared with what its name for it, Stack, would do.        *)
(***************************************************************************)
EXTENDS Integers, Sequences, SequencesExt

\* Stack.pop is items.shift(): the oldest task is taken.
Oldest == "oldest"
Newest == "newest"
TakeTask(tasks, order) ==
    IF order = Oldest THEN [task |-> Head(tasks), rest |-> Tail(tasks)] ELSE [task |-> Last(tasks), rest |-> Front(tasks)]

\* A watch is its name, the tasks under way and the tasks completed.
NewWatch(name) == [name |-> name, currentTasks |-> <<>>, completedTasks |-> <<>>]

\* The summary's total of a task under a watch's name.
sumSpan(summary, key) == IF key \in DOMAIN summary THEN summary[key] ELSE 0

WithTotal(summary, key, total) == [k \in DOMAIN summary \cup {key} |-> IF k = key THEN total ELSE summary[k]]

\* mutant: a task that comes again starts its total over.
AddOnlyNew(summary, name, task) == WithTotal(summary, <<name, task.name>>, task.span)
_addToSummary(summary, name, task) ==
    LET key == <<name, task.name>> IN WithTotal(summary, key, sumSpan(summary, key) + task.span)

_start(sw, w, taskName, now) ==
    [sw EXCEPT !.watches[w].currentTasks = Append(@, [name |-> taskName, start |-> now])]

\* Nothing happens when no task is under way.
_stop(sw, w, now, order) ==
    LET tasks == sw.watches[w].currentTasks
        taken == TakeTask(tasks, order)
        done  == [name |-> taken.task.name, span |-> now - taken.task.start]
    IN  IF tasks = <<>> THEN sw
        ELSE [sw EXCEPT !.watches[w].currentTasks = taken.rest,
                        !.watches[w].completedTasks = Append(@, done),
                        !.summary = _addToSummary(@, sw.watches[w].name, done)]

anyBigger(value, tasks) == \E i \in DOMAIN tasks : tasks[i].span >= value

\* dump stops a task before it formats; dumpIf looks at the completed ones first.
Called(sw, c, now, order) ==
    CASE c.do = "on"    -> [sw EXCEPT !.active = TRUE]
      [] c.do = "off"   -> [sw EXCEPT !.active = FALSE]
      [] c.do = "clean" -> [sw EXCEPT !.watches[c.w].currentTasks = <<>>, !.watches[c.w].completedTasks = <<>>]
      [] c.do = "start" /\ sw.active -> _start(sw, c.w, c.task, now)
      [] c.do = "stop" /\ sw.active  -> _stop(sw, c.w, now, order)
      [] c.do = "next" /\ sw.active  -> _start(_stop(sw, c.w, now, order), c.w, c.task, now)
      [] c.do = "dump" /\ sw.active  -> _stop(sw, c.w, now, order)
      [] c.do = "dumpIf" /\ sw.active /\ anyBigger(c.value, sw.watches[c.w].completedTasks) -> _stop(sw, c.w, now, order)
      [] OTHER -> sw

NewWatches(names) == [active |-> TRUE, summary |-> <<>>, watches |-> [w \in DOMAIN names |-> NewWatch(names[w])]]

\* What the watches of these names hold after the first n calls, for each n.
Measured(names, calls, order) ==
    LET sw[n \in 0..Len(calls)] == IF n = 0 THEN NewWatches(names) ELSE Called(sw[n - 1], calls[n], n, order)
    IN  sw
=============================================================================
