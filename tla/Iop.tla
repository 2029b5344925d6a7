-------------------------------- MODULE Iop --------------------------------
(***************************************************************************)
(* The values of inputs, outputs and attributes: conversions when they are *)
(* written and read, constraints, publications with their timestamps,      *)
(* the synchronous mode, and observers, which are called without the model *)
(* lock (src/src/igs_model.c, igs_network.c, igs_core.c, igsagent.c).      *)
(*                                                                         *)
(* A value is the block of memory that holds it: a number n of units for   *)
(* an int or a bool, of halves for a double, and a text, whose word w is   *)
(* "int" or "real" when it is the number n of halves.                      *)
(*                                                                         *)
(* One agent has the outputs and the attributes, another one in another    *)
(* process the inputs.  A step is one section under the model lock of its  *)
(* process, one callback, or one write of a flag that takes no lock.       *)
(***************************************************************************)
EXTENDS Integers, Sequences, FiniteSets

CONSTANTS
  Outputs, Inputs, Attributes,
  InputOf,      \* the input mapped to each output
  Types,        \* types the IOs may have
  Writes,       \* what users write: value types and blocks
  Constraints,  \* constraints that may be added
  Threads,      \* user threads
  Net,          \* the network thread of the agent of the inputs
  Observers,    \* callbacks that may be observing IOs
  Times,        \* what igs_rt_set_time may be called with
  MaxWrites,    \* bound: writes by user threads
  MaxEdits,     \* bound: every other operation of users
  NotCalled,    \* what an observer saw before its first call
  Null          \* no value, constraint or IO

Ios == Outputs \cup Inputs \cup Attributes

ValueTypes == {"INTEGER", "DOUBLE", "BOOL", "STRING", "IMPULSION", "DATA"}

\* Texts are numbers, words that atoi and atof do not read, or raw data.
Words == {"", "int", "real", "true", "false", "hex", "raw", "word"}
Blocks ==
  [as : {"int", "double"}, n : Int, w : {""}] \cup [as : {"bool"}, n : {0, 1}, w : {""}]
    \cup [as : {"text"}, n : Int, w : Words]

\* Shapes of the values of each type.
Shapes ==
  [INTEGER |-> {"int"}, DOUBLE |-> {"double"}, BOOL |-> {"bool"}, STRING |-> {"text"},
   IMPULSION |-> {}, DATA |-> {"int", "double", "bool", "text"}]

\* A user writes a value of the type of the function, or raw data of any shape.
ASSUME IopAssumption ==
  /\ Types \subseteq ValueTypes
  /\ IsFiniteSet(Outputs)
  /\ Null \notin Blocks /\ Null \notin Ios
  /\ \A w \in Writes :
       /\ w.vtype \in ValueTypes
       /\ w.block # Null => w.block \in Blocks /\ w.block.as \in Shapes[w.vtype]

VARIABLES
  io,         \* type, value, value_size, constraint and is_muted of each IO
  enforce,    \* IOs of the agents with enforce_constraints
  observing,  \* io_callbacks
  call,       \* of each thread: the IO whose observers it calls, and which
  channel,    \* publications on their way
  stamps,     \* rt_timestamps_enabled of the publisher
  sync,       \* rt_synchronous_mode_enabled of the publisher
  time,       \* rt_current_microseconds, 0 for INT64_MIN
  ticking,    \* outputs that igs_rt_set_time has still to publish
  last,       \* history: the last write of each IO, with whether it was verified
  seen,       \* history: what each observer saw last of each IO
  written, edits

iopVars == <<io, enforce, observing, call, channel, stamps, sync, time, ticking, last, seen,
          written, edits>>

Workers == Threads \cup {Net}

(***************************************************************************)
(* Blocks and conversions.                                                 *)
(***************************************************************************)

Block(as, n, w) == [as |-> as, n |-> n, w |-> w]
AnInt(n) == Block("int", n, "")
ADouble(h) == Block("double", h, "")
ABool(b) == Block("bool", IF b THEN 1 ELSE 0, "")
Text(h, w) == Block("text", h, w)

\* sizeof, and the length of a text with its final '\0'.
SizeOf(b) ==
  IF b = Null THEN 0
  ELSE CASE b.as = "int" -> 4 [] b.as = "double" -> 8 [] b.as = "bool" -> 1
         [] b.w = "int" -> IF b.n < 0 THEN 3 ELSE 2
         [] b.w = "real" -> IF b.n < 0 THEN 10 ELSE 9
         [] b.w = "false" -> 6 [] b.w = "hex" -> 3 [] b.w = "raw" -> 1 [] OTHER -> 5

\* Conversion of a double to int, which cuts, and of a double read as int.
Trunc(h) == IF h < 0 THEN -((-h) \div 2) ELSE h \div 2
Round(h) == IF h < 0 THEN Trunc(h - 1) ELSE Trunc(h + 1)

\* The number in a block, in halves; for a text, what atof finds.
Number(b) == CASE b.as \in {"int", "bool"} -> 2 * b.n [] OTHER -> b.n

\* "true", "True" and "TRUE" are one word here; other texts go through atoi.
Truth(b) == IF b.as = "text" THEN b.w = "true" \/ (b.w # "false" /\ Trunc(b.n) # 0)
            ELSE b.n # 0

Printed(b) ==
  CASE b.as \in {"int", "bool"} -> Text(2 * b.n, "int")
    [] b.as = "double" -> Text(b.n, "real")
    [] OTHER -> b

\* model_string_to_bytes: texts of hexadecimal digits become what they encode.
Decoded(b) == IF b.as = "text" /\ b.w = "hex" THEN Text(0, "raw") ELSE b

Zero(type) ==
  CASE type = "INTEGER" -> AnInt(0) [] type = "DOUBLE" -> ADouble(0) [] type = "BOOL" -> ABool(FALSE)
    [] OTHER -> Null

\* model_write of a value that is neither NULL nor raw data.
Converted(type, b) ==
  CASE type = "INTEGER" -> AnInt(Trunc(Number(b)))
    [] type = "DOUBLE" -> ADouble(Number(b))
    [] type = "BOOL" -> ABool(Truth(b))
    [] type = "STRING" -> Printed(b)
    [] type = "DATA" -> Decoded(b)
    [] OTHER -> Null

\* Raw data must have the size of the number, or end with a '\0'.
EndsWithNul(b) ==
  CASE b.as = "text" -> b.w # "raw" [] b.as = "int" -> b.n >= 0 [] OTHER -> b.n = 0
DataFits(type, b) ==
  CASE type = "INTEGER" -> SizeOf(b) = 4 [] type = "DOUBLE" -> SizeOf(b) = 8
    [] type = "BOOL" -> SizeOf(b) = 1 [] type = "STRING" -> EndsWithNul(b)
    [] OTHER -> TRUE
FromData(type, b) ==
  CASE type = "BOOL" -> ABool(b.n # 0 \/ b.as = "text")
    [] type = "STRING" -> IF b.as = "text" THEN b ELSE Text(0, "raw")
    [] type = "IMPULSION" -> Null
    [] OTHER -> b

\* The value that an IO gets.
Stored(type, vtype, b) ==
  IF b = Null THEN Zero(type)
  ELSE IF vtype = "DATA" THEN FromData(type, b) ELSE Converted(type, b)
Storable(type, vtype, b) == vtype = "DATA" /\ b # Null => DataFits(type, b)

(***************************************************************************)
(* Constraints.                                                            *)
(***************************************************************************)

\* Bounds are compared with doubles in halves, and cut for integers.
Within(type, c, h) ==
  LET bound == IF type = "INTEGER" THEN 2 * Trunc(c.bound) ELSE c.bound
  IN IF c.form = "min" THEN h >= bound ELSE h <= bound

Suits(type, c) ==
  \/ type \in {"INTEGER", "DOUBLE"} /\ c.form \in {"min", "max"}
  \/ type = "STRING" /\ c.form = "regexp"

\* What the IO holds obeys its constraint.
Obeys(x) ==
  LET c == io[x].constraint IN
  c # Null => IF io[x].type = "STRING"
              THEN io[x].value # Null /\ io[x].value.w \in c.words
              ELSE Within(io[x].type, c, Number(io[x].value))

\* The first part of model_write.  A bool is read as if it were an int or a
\* double, which tells nothing.  Raw data written to a string is compared as
\* the number in its first bytes: the case goes on into the one of integers.
VerifiedNumber(type, c, vtype, b) ==
  IF b = Null THEN {Within(type, c, 0)}
  ELSE CASE vtype = "BOOL" -> BOOLEAN
         [] vtype = "DATA" /\ ~DataFits(type, b) -> {FALSE}
         [] type = "INTEGER" -> {Within(type, c, 2 * Trunc(Number(b)))}
         [] OTHER -> {Within(type, c, Number(b))}
VerifiedText(c, vtype, b) ==
  IF b = Null THEN {FALSE}
  ELSE CASE vtype = "DATA" -> {EndsWithNul(b) /\ "int" \in c.words}
         [] OTHER -> {Printed(b).w \in c.words}

Anything(x, vtype, b) == {TRUE}      \* mutant: nothing is verified
Verified(x, vtype, b) ==
  LET c == io[x].constraint IN
  IF c = Null \/ x \notin enforce THEN {TRUE}
  ELSE IF io[x].type = "STRING" THEN VerifiedText(c, vtype, b)
  ELSE VerifiedNumber(io[x].type, c, vtype, b)

(***************************************************************************)
(* Writes, publications and observers.                                     *)
(***************************************************************************)

Idle == [io |-> Null, state |-> "idle", left |-> <<>>]
Free(x) == x \in Inputs \/ ticking = <<>>     \* the lock of its process

\* network_publish_output.  Without igs_rt_set_time, the clock gives 1.
Frame(x, value, origin) ==
  [output |-> x, vtype |-> io[x].type, block |-> value, origin |-> origin,
   stamp |-> IF ~stamps THEN 0 ELSE IF time # 0 THEN time ELSE 1]
Publish(x, value, origin) ==
  channel' = IF io[x].muted THEN channel ELSE Append(channel, Frame(x, value, origin))

\* Where a value comes from, and the types it went through.
Sent(x, vtype, b) == [vtype |-> vtype, block |-> b, via |-> {io[x].type}]
Passed(x, origin) == IF origin = Null THEN Null ELSE [origin EXCEPT !.via = @ \cup {io[x].type}]

\* A write, whose observers are called afterwards when it succeeds.
Write(t, x, vtype, b) ==
  \E ok \in Verified(x, vtype, b) :
    IF ok /\ Storable(io[x].type, vtype, b)
    THEN LET v == Stored(io[x].type, vtype, b) IN
         /\ io' = [io EXCEPT ![x].value = v, ![x].size = SizeOf(v)]
         /\ last' = [last EXCEPT ![x] = [vtype |-> vtype, block |-> b, verified |-> x \in enforce, origin |-> Sent(x, vtype, b)]]
         /\ call' = [call EXCEPT ![t] = [io |-> x, state |-> "written", left |-> <<>>]]
         /\ IF x \in Outputs /\ ~sync THEN Publish(x, v, Sent(x, vtype, b)) ELSE UNCHANGED channel
    ELSE UNCHANGED <<io, last, call, channel>>

\* igsagent_input_set_*, igsagent_output_set_*, igsagent_attribute_set_*.
SetIo(t, x, w) ==
  /\ call[t] = Idle /\ written < MaxWrites /\ Free(x)
  /\ written' = written + 1
  /\ Write(t, x, w.vtype, w.block)
  /\ UNCHANGED <<enforce, observing, stamps, sync, time, ticking, seen, edits>>

\* model_LOCKED_handle_io_callbacks: the list of the callbacks is copied.
NewestOnly(x) == IF observing[x] = <<>> THEN <<>>   \* mutant: one callback for each IO
                 ELSE <<observing[x][Len(observing[x])]>>
CallbacksOf(x) == observing[x]
Snapshot(t) ==
  /\ call[t].state = "written" /\ Free(call[t].io)
  /\ LET x == call[t].io IN
       call' = [call EXCEPT ![t] = IF CallbacksOf(x) = <<>> THEN Idle
                                   ELSE [io |-> x, state |-> "observing", left |-> CallbacksOf(x)]]
  /\ UNCHANGED <<io, enforce, observing, channel, stamps, sync, time, ticking, last, seen,
                 written, edits>>

\* A callback gets the address of the value, not the value that was written.
CallObserver(t) ==
  /\ call[t].state = "observing"
  /\ seen' = [seen EXCEPT ![call[t].io][Head(call[t].left)] = io[call[t].io].value]
  /\ call' = [call EXCEPT ![t] = IF Len(call[t].left) = 1 THEN Idle
                                 ELSE [io |-> call[t].io, state |-> "observing", left |-> Tail(call[t].left)]]
  /\ UNCHANGED <<io, enforce, observing, channel, stamps, sync, time, ticking, last,
                 written, edits>>

\* s_handle_publication.
Receive(x) ==
  /\ call[Net] = Idle /\ channel # <<>>
  /\ InputOf[Head(channel).output] = x
  /\ LET m == Head(channel) IN
     \E ok \in Verified(x, m.vtype, m.block) :
       IF ok /\ Storable(io[x].type, m.vtype, m.block)
       THEN LET v == Stored(io[x].type, m.vtype, m.block) IN
            /\ io' = [io EXCEPT ![x].value = v, ![x].size = SizeOf(v)]
            /\ last' = [last EXCEPT ![x] =
                 [vtype |-> m.vtype, block |-> m.block, verified |-> x \in enforce, origin |-> Passed(x, m.origin)]]
            /\ call' = [call EXCEPT ![Net] = [io |-> x, state |-> "written", left |-> <<>>]]
       ELSE UNCHANGED <<io, last, call>>
  /\ channel' = Tail(channel)
  /\ UNCHANGED <<enforce, observing, stamps, sync, time, ticking, seen, written, edits>>

(***************************************************************************)
(* Everything else.                                                        *)
(***************************************************************************)

Edit == edits < MaxEdits /\ edits' = edits + 1

\* s_model_clear_io: no verification and no observer, and numbers keep
\* their size.
SizeKept(x) == io[x].size             \* mutant: value_size is not reset
SizeCleared(x) == IF io[x].type \in {"STRING", "DATA"} THEN 0 ELSE io[x].size
Clear(x) ==
  /\ Edit /\ Free(x)
  /\ io' = [io EXCEPT ![x].value = Zero(io[x].type), ![x].size = SizeCleared(x)]
  /\ last' = [last EXCEPT ![x] = Null]
  /\ UNCHANGED <<enforce, observing, call, channel, stamps, sync, time, ticking, seen, written>>

\* s_model_add_constraint: what is there is removed, suitable or not.
AddConstraint(x, c) ==
  /\ Edit /\ Free(x)
  /\ io' = [io EXCEPT ![x].constraint = IF Suits(io[x].type, c) THEN c ELSE Null]
  /\ last' = [last EXCEPT ![x] = IF @ = Null THEN Null ELSE [@ EXCEPT !.verified = FALSE]]
  /\ UNCHANGED <<enforce, observing, call, channel, stamps, sync, time, ticking, seen, written>>

Observe(x, o) ==
  /\ Edit /\ Free(x)
  /\ observing' = [observing EXCEPT ![x] = Append(@, o)]
  /\ UNCHANGED <<io, enforce, call, channel, stamps, sync, time, ticking, last, seen, written>>

\* igsagent_output_mute and igsagent_output_unmute.
Mute(x) ==
  /\ Edit /\ Free(x) /\ x \in Outputs
  /\ io' = [io EXCEPT ![x].muted = ~@]
  /\ UNCHANGED <<enforce, observing, call, channel, stamps, sync, time, ticking, last, seen,
                 written>>

\* Written without the lock.
ConstraintsEnforce ==
  /\ Edit
  /\ \E agent \in {Inputs, Ios \ Inputs} :
       enforce' = IF agent \subseteq enforce THEN enforce \ agent ELSE enforce \cup agent
  /\ UNCHANGED <<io, observing, call, channel, stamps, sync, time, ticking, last, seen, written>>
SetTimestamps ==
  /\ Edit /\ stamps' = ~stamps
  /\ UNCHANGED <<io, enforce, observing, call, channel, sync, time, ticking, last, seen, written>>
SetSynchronousMode ==
  /\ Edit /\ sync' = ~sync
  /\ UNCHANGED <<io, enforce, observing, call, channel, stamps, time, ticking, last, seen,
                 written>>

\* igs_rt_set_time: the outputs are published one by one, under the lock.
Orders == {s \in [1..Cardinality(Outputs) -> Outputs] : \A i, j \in DOMAIN s : s[i] = s[j] => i = j}
RtSetTime(now) ==
  /\ Edit /\ ticking = <<>>
  /\ time' = now
  /\ stamps' = TRUE
  /\ \E order \in Orders : ticking' = IF sync THEN order ELSE <<>>
  /\ UNCHANGED <<io, enforce, observing, call, channel, sync, last, seen, written>>
TickPublish ==
  /\ ticking # <<>>
  /\ LET x == Head(ticking) IN
       Publish(x, io[x].value, IF last[x] = Null THEN Null ELSE last[x].origin)
  /\ ticking' = Tail(ticking)
  /\ UNCHANGED <<io, enforce, observing, call, stamps, sync, time, last, seen, written, edits>>

\* igsagent_*_bool, _int, _double and _string.  Crash is what reading a
\* string without value as a number does: atoi and atof are given NULL.
Crash == Block("crash", 0, "")
ReadBool(x) == ABool(IF io[x].value = Null \/ io[x].type = "DATA" THEN FALSE
                    ELSE IF io[x].type = "STRING" THEN io[x].value.w = "true"
                    ELSE io[x].value.n # 0)
ReadInt(x) ==
  CASE io[x].type = "STRING" -> IF io[x].value = Null THEN Crash ELSE AnInt(Trunc(io[x].value.n))
    [] io[x].type = "DOUBLE" -> AnInt(Round(io[x].value.n))
    [] io[x].type \in {"INTEGER", "BOOL"} -> AnInt(io[x].value.n)
    [] OTHER -> AnInt(0)
ReadDouble(x) ==
  CASE io[x].type = "STRING" -> IF io[x].value = Null THEN Crash ELSE ADouble(io[x].value.n)
    [] io[x].type \in {"IMPULSION", "DATA"} -> ADouble(0)
    [] OTHER -> ADouble(Number(io[x].value))
ReadString(x) ==
  CASE io[x].type \in {"IMPULSION", "DATA"} -> Null
    [] io[x].type = "BOOL" -> Text(0, IF io[x].value.n # 0 THEN "true" ELSE "false")
    [] OTHER -> IF io[x].value = Null THEN Null ELSE Printed(io[x].value)
Result(x, as) ==
  CASE as = "BOOL" -> ReadBool(x) [] as = "INTEGER" -> ReadInt(x) [] as = "DOUBLE" -> ReadDouble(x)
    [] OTHER -> ReadString(x)

IopInit ==
  /\ \E type \in [Ios -> Types] :
       io = [x \in Ios |-> [type |-> type[x], value |-> Zero(type[x]), size |-> SizeOf(Zero(type[x])),
                            constraint |-> Null, muted |-> FALSE]]
  /\ enforce = {} /\ observing = [x \in Ios |-> <<>>]
  /\ call = [t \in Workers |-> Idle] /\ channel = <<>>
  /\ stamps = FALSE /\ sync = FALSE /\ time = 0 /\ ticking = <<>>
  /\ last = [x \in Ios |-> Null]
  /\ seen = [x \in Ios |-> [o \in Observers |-> NotCalled]]
  /\ written = 0 /\ edits = 0

RtStep == ConstraintsEnforce \/ SetTimestamps \/ SetSynchronousMode \/ \E now \in Times : RtSetTime(now)
EditStep(x) ==
  \/ Clear(x) \/ Mute(x)
  \/ \E c \in Constraints : AddConstraint(x, c)
  \/ \E o \in Observers : Observe(x, o)

IopNext ==
  \/ \E t \in Threads, x \in Ios, w \in Writes : SetIo(t, x, w)
  \/ \E t \in Workers : Snapshot(t) \/ CallObserver(t)
  \/ \E x \in Inputs : Receive(x)
  \/ \E x \in Ios : EditStep(x)
  \/ RtStep \/ TickPublish

IopSpec == IopInit /\ [][IopNext]_iopVars

(***************************************************************************)
(* Properties.                                                             *)
(***************************************************************************)

\* Values have the shape of their type, and value_size is their size.
IopTypeOK ==
  /\ \A x \in Ios : /\ IF io[x].value = Null THEN io[x].type \in {"STRING", "IMPULSION", "DATA"}
                       ELSE io[x].value.as \in Shapes[io[x].type]
                    /\ io[x].size = SizeOf(io[x].value)
                    /\ io[x].constraint # Null => Suits(io[x].type, io[x].constraint)
  /\ \A t \in Workers : call[t].io = Null <=> call[t] = Idle

\* What an IO holds obeys its constraint when the last write was verified
\* against it and was neither a bool nor raw data for a string, whatever
\* path the value came along and whatever type it had.
ConstraintHolds ==
  \A x \in Ios : LET w == last[x] IN
    w # Null /\ w.verified /\ w.vtype # "BOOL" /\ (w.vtype = "DATA" => io[x].type # "STRING")
      => Obeys(x)

\* Types that can hold every value of a type, for igsagent_*_bool, _int, etc.
Holders(vtype) ==
  CASE vtype = "INTEGER" -> {"INTEGER", "DOUBLE", "STRING"}
    [] vtype = "DOUBLE" -> {"DOUBLE", "STRING"}
    [] vtype = "BOOL" -> {"BOOL", "INTEGER", "DOUBLE"}
    [] vtype = "STRING" -> {"STRING"}
    [] OTHER -> {}

\* What was written is what is read, through every output and input that
\* can hold it: conversions to text and back, frames and numbers.
ReadsBack ==
  \A x \in Ios : last[x] # Null /\ last[x].origin # Null =>
    LET o == last[x].origin IN
    o.block # Null /\ o.via \subseteq Holders(o.vtype) => Result(x, o.vtype) = o.block

\* Both: a write leaves in every IO it reaches a value that its constraint
\* allows and that reads as what was written (igs_model.c:909-1313, 1558-1820).
ValuesRight == ConstraintHolds /\ ReadsBack

\* Once no thread is calling its observers, each of them has seen last what
\* the IO holds, unless the IO was cleared or they were never called.
ObserversUpToDate ==
  \A x \in Ios : (\A t \in Workers : call[t].io # x) /\ last[x] # Null =>
    \A o \in Observers : seen[x][o] \in {NotCalled, io[x].value}

\* ingescape.h: "Timestamps cannot be disabled afterwards".
TimestampsStay == time # 0 => stamps

\* ingescape.h: "IOs of type STRING must match the regular expression".
TextsMatch ==
  \A x \in Ios : last[x] # Null /\ last[x].verified /\ io[x].type = "STRING" => Obeys(x)

\* igs_model.c, when a string is NULL: "(0 was returned)".
ReadsReturn == \A x \in Ios, as \in {"BOOL", "INTEGER", "DOUBLE", "STRING"} : Result(x, as) # Crash
=============================================================================
