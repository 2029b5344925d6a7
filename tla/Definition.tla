---------------------------- MODULE Definition -----------------------------
(***************************************************************************)
(* The two documents of an agent, its definition and its mapping: their    *)
(* edits, the JSON texts cached for each version of the protocol, saving   *)
(* and loading, and how peers get and keep a copy (src/src/igs_definition.c*)
(* igs_parser.c, igs_service.c, igs_model.c, igs_mapping.c, igs_network.c).*)
(*                                                                         *)
(* One agent edits; each peer speaks one version of the protocol.  A text  *)
(* is the record of what it says, with the keys it uses.  A bound of a     *)
(* constraint is a number of ten-millionths, one digit more than the six   *)
(* decimals of a text, within what a double and an int can hold; ranges,   *)
(* which have two bounds, are left out.  A step is one section under the   *)
(* model lock.                                                             *)
(***************************************************************************)
EXTENDS Integers, Sequences, FiniteSets, SequencesExt

CONSTANTS
  Peers,        \* processes that may join
  Protocol,     \* of each peer: "v2", "v3", "v4" or "v5"
  Names,        \* names of the agent and of its class
  Ios,          \* names of inputs, outputs and attributes
  Types,        \* value types that edits use
  Constraints,  \* constraints that edits use
  Elements,     \* elements of mappings and splits
  Foreign,      \* definitions written by hand, which may be loaded
  Beginnings,   \* definitions of the agent when the model starts
  MaxEdits,     \* bound: edits, loads, starts and stops
  None          \* no class, package, constraint, text or copy

Kinds == {"inputs", "outputs", "attributes"}
Texts == {"family", "description", "version"}
IoNotes == {"description", "detailed_type"}   \* the latter with its specification
ValueTypes == {"INTEGER", "DOUBLE", "BOOL", "STRING", "IMPULSION", "DATA", "UNKNOWN"}

\* What definitions (Definitions) and their texts (Documents) are made of.
Limits == [form : {"min", "max", "regexp"}, bound : Int]
IoRecords == [name : Ios, type : ValueTypes, constraint : Limits \cup {None}, notes : SUBSET IoNotes]
Arguments == [name : Ios, type : ValueTypes, described : BOOLEAN]
Replies == [name : Ios, described : BOOLEAN, args : Seq(Arguments)]
ServiceTexts == [name : Ios, described : BOOLEAN, args : Seq(Arguments), replies : Seq(Replies)]
ServiceRecords ==
  [name : Ios, described : BOOLEAN, cb : BOOLEAN, args : Seq(Arguments), replies : Seq(Replies)]
Documents ==
  [name : Names \cup {None}, class : Names \cup {None}, package : Names \cup {None},
   texts : SUBSET Texts, ios : [Kinds -> Seq(IoRecords)], services : Seq(ServiceTexts)]
Definitions ==
  [name : Names, class : Names \cup {None}, explicit : BOOLEAN, package : Names \cup {None},
   texts : SUBSET Texts, ios : [Kinds -> Seq(IoRecords)], services : Seq(ServiceRecords)]

VARIABLES
  definition,   \* agent->definition
  mapping,      \* agent->mapping
  json,         \* json, json_legacy_v4 and _v3 of the definition
  mapJson,      \* json and json_legacy of the mapping
  redefine,     \* network_need_to_send_definition_update
  remap,        \* network_need_to_send_mapping_update
  file,         \* what igsagent_definition_save wrote
  loading,      \* igsagent_definition_load_str before igsagent_set_name
  comparing,    \* igsagent_mapping_load_str after igsagent_mapping_json
  started,      \* the network thread runs
  joined,       \* zyre_peers with has_joined_private_channel
  channel,      \* texts on their way to each peer
  copy,         \* definition that each peer holds
  mapCopy,      \* mapping that each peer holds
  edits,        \* edits so far, bounded by MaxEdits
  uncached      \* history: a constraint was lost since the last export

documents == <<definition, mapping, json, mapJson, redefine, remap, uncached>>
network == <<started, joined, channel, copy, mapCopy>>
users == <<file, loading, comparing, edits>>
definitionVars == <<documents, network, users>>

(***************************************************************************)
(* Definitions.                                                            *)
(***************************************************************************)

HasName(s, n) == \E i \in DOMAIN s : s[i].name = n
OfName(s, n) == SelectInSeq(s, LAMBDA x : x.name = n)
Dropped(s, n) == IF HasName(s, n) THEN RemoveAt(s, OfName(s, n)) ELSE s
Changed(s, n, x) == [s EXCEPT ![OfName(s, n)] = x]
Get(s, n) == s[OfName(s, n)]

\* model_parse_constraint: min, max and range for numbers, regexp for strings.
\* Integers are read by atoi, which stops at the decimal point.
Cut(b) == IF b < 0 THEN -((-b \div 10000000) * 10000000) ELSE (b \div 10000000) * 10000000
Parsed(type, c) ==
  IF c = None THEN None
  ELSE IF c.form = "regexp" THEN IF type = "STRING" THEN c ELSE None
  ELSE CASE type = "INTEGER" -> [c EXCEPT !.bound = Cut(c.bound)]
         [] type = "DOUBLE" -> c
         [] OTHER -> None

\* "%f" and "%d": six decimals.
Rounded(b) == IF b < 0 THEN -(((5 - b) \div 10) * 10) ELSE ((b + 5) \div 10) * 10
Written(c) == IF c = None \/ c.form = "regexp" THEN c ELSE [c EXCEPT !.bound = Rounded(c.bound)]

MapSeq(s, Op(_)) == [i \in DOMAIN s |-> Op(s[i])]

NoIo == [k \in Kinds |-> <<>>]
Empty(name) == [name |-> name, class |-> None, explicit |-> FALSE, package |-> None,
                texts |-> {}, ios |-> NoIo, services |-> <<>>]

\* parser_export_definition: everything but the callbacks, the values and
\* class_set_explicitly.
ExportedIo(io) == [io EXCEPT !.constraint = Written(io.constraint)]
ExportedIos(ios) == [k \in Kinds |-> MapSeq(ios[k], ExportedIo)]
ExportedService(s) ==
  [name |-> s.name, described |-> s.described, args |-> s.args, replies |-> s.replies]
ExportedServices(services) == MapSeq(services, ExportedService)
Exported(d) ==
  [name |-> d.name, class |-> d.class, package |-> d.package, texts |-> d.texts,
   ios |-> ExportedIos(d.ios), services |-> ExportedServices(d.services)]

\* parser_export_definition_legacy_v4: arguments without descriptions.
Plain(args) == MapSeq(args, LAMBDA a : [a EXCEPT !.described = FALSE])
PlainServices(services) ==
  MapSeq(services, LAMBDA s : [s EXCEPT !.args = Plain(@),
           !.replies = MapSeq(@, LAMBDA r : [r EXCEPT !.args = Plain(@)])])
ExportedV4(d) == [Exported(d) EXCEPT !.services = PlainServices(@)]

\* parser_export_definition_legacy_v3: no class, package, constraint or note.
Bare(ios) ==
  [k \in Kinds |-> MapSeq(ios[k], LAMBDA io : [io EXCEPT !.constraint = None, !.notes = {}])]
ExportedV3(d) == [ExportedV4(d) EXCEPT !.class = None, !.package = None, !.ios = Bare(@)]

\* definition_update_json.
Exports(d) == [full |-> Exported(d), v4 |-> ExportedV4(d), v3 |-> ExportedV3(d)]
ForPeer(j, p) ==
  CASE Protocol[p] \in {"v2", "v3"} -> j.v3 [] Protocol[p] = "v4" -> j.v4 [] OTHER -> j.full

NamesOnce(s) == \A i, j \in DOMAIN s : s[i].name = s[j].name => i = j

\* The first of the elements that have the same name, in their order.
EveryOne(s) == s                   \* mutant: duplicates are kept
FirstOnly(s) ==
  LET first == {i \in DOMAIN s : \A j \in 1..i - 1 : s[j].name # s[i].name}
  IN [n \in 1..Cardinality(first) |->
        s[CHOOSE i \in first : Cardinality(first \cap 1..i) = n]]

\* parser_parse_definition_from_node: the name is mandatory; inputs, outputs,
\* attributes and services that are there already are ignored, replies are
\* not; a constraint that does not suit its type is dropped.
LoadedIo(io) == [io EXCEPT !.constraint = Parsed(io.type, io.constraint)]
LoadedIos(ios) == [k \in Kinds |-> MapSeq(FirstOnly(ios[k]), LoadedIo)]
LoadedService(s) == [name |-> s.name, described |-> s.described, cb |-> FALSE,
                     args |-> s.args, replies |-> s.replies]
LoadedServices(services) == MapSeq(FirstOnly(services), LoadedService)
Loaded(j) ==
  [name |-> j.name, class |-> j.class, explicit |-> FALSE, package |-> j.package,
   texts |-> j.texts, ios |-> LoadedIos(j.ios), services |-> LoadedServices(j.services)]
IsValid(j) == j.name # None

\* Each name is there once, and constraints are such as they are parsed.
Sound(d) ==
  /\ \A k \in Kinds :
       /\ NamesOnce(d.ios[k])
       /\ \A i \in DOMAIN d.ios[k] :
            LET io == d.ios[k][i] IN Parsed(io.type, io.constraint) = io.constraint
  /\ NamesOnce(d.services)

\* Texts are what a parser accepts, the agent begins with a definition that
\* the functions of the library may have made.
ASSUME DefinitionAssumption ==
  /\ None \notin Names /\ None \notin Limits /\ None \notin Documents
  /\ Types \subseteq ValueTypes /\ Constraints \subseteq Limits
  /\ Foreign \subseteq Documents
  /\ Beginnings \subseteq Definitions /\ \A b \in Beginnings : Sound(b)

(***************************************************************************)
(* Edits of the definition.                                                *)
(***************************************************************************)

Edit == edits < MaxEdits /\ edits' = edits + 1
EditFrame == UNCHANGED <<mapping, mapJson, remap, network, file, loading, comparing>>

\* The end of every edit: the texts are exported and the update is due.
NoExport(d) == UNCHANGED <<json, uncached>>     \* mutant: the texts are not exported
Export(d) == json' = Exports(d) /\ uncached' = FALSE
Commit(d) ==
  /\ definition' = d
  /\ Export(d)
  /\ redefine' = TRUE
  /\ Edit /\ EditFrame

\* An edit of one of the tables.
WithIos(k, s) == [definition EXCEPT !.ios[k] = s]
WithServices(s) == [definition EXCEPT !.services = s]

\* definition_create_io and igsagent_*_remove.
AlwaysCreates(s, n) == TRUE       \* mutant: existing names are not looked for
MayCreate(s, n) == ~HasName(s, n)
IoCreate(k, n, type) ==
  /\ MayCreate(definition.ios[k], n)
  /\ Commit(WithIos(k, Append(definition.ios[k],
                             [name |-> n, type |-> type, constraint |-> None, notes |-> {}])))

IoRemove(k, n) ==
  /\ HasName(definition.ios[k], n)
  /\ Commit(WithIos(k, Dropped(definition.ios[k], n)))

\* s_model_add_constraint: the constraint the IO had is freed first, so that
\* a constraint that is refused leaves none, and texts that still have it.
AddConstraint(k, n, c) ==
  /\ HasName(definition.ios[k], n)
  /\ LET io == Get(definition.ios[k], n)
         d == WithIos(k, Changed(definition.ios[k], n,
                                 [io EXCEPT !.constraint = Parsed(io.type, c)]))
     IN IF Parsed(io.type, c) # None
        THEN Commit(d)
        ELSE /\ definition' = d
             /\ uncached' = (uncached \/ io.constraint # None)
             /\ Edit /\ EditFrame
             /\ UNCHANGED <<json, redefine>>

\* s_model_set_description and s_model_set_detailed_type.
Annotate(k, n, note) ==
  /\ HasName(definition.ios[k], n)
  /\ LET io == Get(definition.ios[k], n)
     IN Commit(WithIos(k, Changed(definition.ios[k], n, [io EXCEPT !.notes = @ \cup {note}])))

SetText(text) == Commit([definition EXCEPT !.texts = @ \cup {text}])

\* Refused once the agent is started.
SetPackage(n) == ~started /\ Commit([definition EXCEPT !.package = n])
SetClass(n) == ~started /\ Commit([definition EXCEPT !.class = n, !.explicit = TRUE])

\* igsagent_set_name: the class follows the name unless it was set.
Renamed(d, n) ==
  [d EXCEPT !.name = n,
            !.class = IF @ = None \/ (@ = d.name /\ ~d.explicit) THEN n ELSE @]
SetName(n) == n # definition.name /\ Commit(Renamed(definition, n))

\* igsagent_clear_definition keeps the name.
ClearDefinition == Commit(Empty(definition.name))

\* Edits of services: a change of the service, of its arguments or replies.
WithService(n, s) == WithServices(Changed(definition.services, n, s))
Service(n) == Get(definition.services, n)
ServiceInit(n) ==
  \/ /\ ~HasName(definition.services, n)
     /\ Commit(WithServices(Append(definition.services,
          [name |-> n, described |-> FALSE, cb |-> TRUE, args |-> <<>>, replies |-> <<>>])))
  \/ /\ HasName(definition.services, n) /\ ~Service(n).cb
     /\ definition' = WithService(n, [Service(n) EXCEPT !.cb = TRUE])
     /\ Edit /\ EditFrame
     /\ UNCHANGED <<json, redefine, uncached>>

ServiceRemove(n) ==
  HasName(definition.services, n) /\ Commit(WithServices(Dropped(definition.services, n)))
ServiceDescribe(n) ==
  HasName(definition.services, n) /\ Commit(WithService(n, [Service(n) EXCEPT !.described = TRUE]))

\* Of the arguments of a service or of a reply.  Names may be there twice.
ArgumentEdits(args, a, type) ==
  {Append(args, [name |-> a, type |-> type, described |-> FALSE])}
  \cup IF HasName(args, a)
       THEN {Dropped(args, a), Changed(args, a, [Get(args, a) EXCEPT !.described = TRUE])}
       ELSE {}

EditArguments(n, a, type) ==
  /\ HasName(definition.services, n)
  /\ \E args \in ArgumentEdits(Service(n).args, a, type) :
       Commit(WithService(n, [Service(n) EXCEPT !.args = args]))

\* igsagent_service_reply_add, _remove, _set_description and arguments.
ReplyAdd(n, r) ==
  /\ HasName(definition.services, n) /\ ~HasName(Service(n).replies, r)
  /\ Commit(WithService(n, [Service(n) EXCEPT !.replies =
       Append(Service(n).replies, [name |-> r, described |-> FALSE, args |-> <<>>])]))
EditReply(n, r, a, type) ==
  /\ HasName(definition.services, n) /\ HasName(Service(n).replies, r)
  /\ LET replies == Service(n).replies
         reply == Get(replies, r)
     IN \E edited \in {Dropped(replies, r), Changed(replies, r, [reply EXCEPT !.described = TRUE])}
              \cup {Changed(replies, r, [reply EXCEPT !.args = args]) :
                      args \in ArgumentEdits(reply.args, a, type)} :
          Commit(WithService(n, [Service(n) EXCEPT !.replies = edited]))

(***************************************************************************)
(* Saving and loading.                                                     *)
(***************************************************************************)

\* igsagent_definition_save writes the cached text.
Save ==
  /\ file # json.full
  /\ file' = json.full
  /\ UNCHANGED <<documents, network, loading, comparing, edits>>

\* igsagent_definition_load_str, _load_file and LOAD_DEFINITION: the document
\* is replaced under the lock, and its name is set in a section of its own.
Load(j) ==
  /\ loading = None /\ j # None /\ IsValid(j)
  /\ definition' = Loaded(j)
  /\ Export(Loaded(j))
  /\ redefine' = TRUE
  /\ loading' = j.name
  /\ Edit
  /\ UNCHANGED <<mapping, mapJson, remap, network, file, comparing>>

\* igsagent_set_name with the name loaded, which is freed when the agent was
\* renamed in the meantime: whatever the memory holds is set then.
LoadName ==
  /\ loading # None
  /\ \E n \in IF definition.name = loading THEN {loading} ELSE Names :
       IF n = definition.name
       THEN UNCHANGED <<definition, json, redefine, uncached>>
       ELSE /\ definition' = Renamed(definition, n)
            /\ Export(Renamed(definition, n)) /\ redefine' = TRUE
  /\ loading' = None
  /\ UNCHANGED <<mapping, mapJson, remap, network, file, comparing, edits>>

(***************************************************************************)
(* The mapping.                                                            *)
(***************************************************************************)

\* parser_export_mapping and parser_export_mapping_legacy.
MapExports(m) == [full |-> m, legacy |-> [m EXCEPT !.splits = <<>>]]
MapForPeer(j, p) == IF Protocol[p] = "v2" THEN j.legacy ELSE j.full

\* mapping_is_equal: the same elements, in any order.
SameMapping(m, o) == ToSet(m.maps) = ToSet(o.maps) /\ ToSet(m.splits) = ToSet(o.splits)

MapExport(m) == mapJson' = MapExports(m)
Remap(m) ==
  /\ mapping' = m
  /\ MapExport(m)
  /\ remap' = TRUE
  /\ UNCHANGED <<definition, json, redefine, uncached, network, file, loading>>

\* igsagent_mapping_add, igsagent_split_add and what removes elements.
EditMapping(part, e) ==
  /\ Edit
  /\ Remap([mapping EXCEPT ![part] = IF e \in ToSet(@) THEN Remove(@, e) ELSE Append(@, e)])
  /\ UNCHANGED comparing

ClearMapping == Edit /\ Remap([maps |-> <<>>, splits |-> <<>>]) /\ UNCHANGED comparing

\* igsagent_mapping_load_str: the current text is read in a section before.
MapRead(m) ==
  /\ comparing = None
  /\ comparing' = [new |-> m, current |-> mapJson.full]
  /\ Edit
  /\ UNCHANGED <<documents, network, file, loading>>
MapLoad ==
  /\ comparing # None
  /\ comparing' = None
  /\ IF SameMapping(comparing.new, comparing.current)
     THEN UNCHANGED <<documents, network, file, loading, edits>>
     ELSE Remap(comparing.new) /\ UNCHANGED edits

\* LOAD_MAPPING replaces the mapping in one section, the same one or not.
MapCommand(m) == started /\ Edit /\ Remap(m) /\ UNCHANGED comparing

(***************************************************************************)
(* The network thread.                                                     *)
(***************************************************************************)

SendTo(S, m(_)) == [p \in Peers |-> IF p \in S THEN channel[p] \o m(p) ELSE channel[p]]
DefinitionText(p) == [type |-> "EXTERNAL_DEFINITION", text |-> ForPeer(json, p)]
MappingText(p) == [type |-> "EXTERNAL_MAPPING", text |-> MapForPeer(mapJson, p)]

\* JOIN of the private channel: the newcomer gets both documents.
MappingFirst(p) == <<MappingText(p), DefinitionText(p)>>   \* mutant: the other order
Greeting(p) == <<DefinitionText(p), MappingText(p)>>
Join(p) ==
  /\ started /\ p \notin joined
  /\ joined' = joined \cup {p}
  /\ channel' = SendTo({p}, Greeting)
  /\ UNCHANGED <<documents, users, started, copy, mapCopy>>

\* s_trigger_definition_update and s_trigger_mapping_update.
DefinitionTimer ==
  /\ started /\ redefine
  /\ channel' = SendTo(joined, LAMBDA q : <<DefinitionText(q)>>)
  /\ redefine' = FALSE /\ remap' = TRUE
  /\ UNCHANGED <<definition, mapping, json, mapJson, uncached, users, started, joined, copy, mapCopy>>
MappingTimer ==
  /\ started /\ remap
  /\ channel' = SendTo(joined, LAMBDA q : <<MappingText(q)>>)
  /\ remap' = FALSE
  /\ UNCHANGED <<definition, mapping, json, mapJson, redefine, uncached, users, started, joined,
                 copy, mapCopy>>

\* EXTERNAL_DEFINITION and EXTERNAL_MAPPING: a mapping is rejected while the
\* agent is unknown.
Receive(p) ==
  /\ channel[p] # <<>>
  /\ LET m == Head(channel[p]) IN
       /\ copy' = IF m.type = "EXTERNAL_DEFINITION" /\ IsValid(m.text)
                  THEN [copy EXCEPT ![p] = Loaded(m.text)] ELSE copy
       /\ mapCopy' = IF m.type = "EXTERNAL_MAPPING" /\ copy[p] # None
                     THEN [mapCopy EXCEPT ![p] = m.text] ELSE mapCopy
  /\ channel' = [channel EXCEPT ![p] = Tail(@)]
  /\ UNCHANGED <<documents, users, started, joined>>

\* s_run_loop resets both flags: whoever joins gets the documents.  igs_stop
\* makes the peers forget the agent.
Start ==
  /\ ~started /\ Edit
  /\ started' = TRUE /\ redefine' = FALSE /\ remap' = FALSE
  /\ UNCHANGED <<definition, mapping, json, mapJson, uncached, file, loading, comparing,
                 joined, channel, copy, mapCopy>>
Stop ==
  /\ started /\ Edit
  /\ started' = FALSE /\ joined' = {}
  /\ channel' = [p \in Peers |-> <<>>]
  /\ copy' = [p \in Peers |-> None] /\ mapCopy' = [p \in Peers |-> None]
  /\ UNCHANGED <<documents, file, loading, comparing>>

DefinitionInit ==
  /\ \E b \in Beginnings : /\ definition = b /\ json = Exports(b)
  /\ mapping = [maps |-> <<>>, splits |-> <<>>] /\ mapJson = MapExports(mapping)
  /\ redefine = TRUE /\ remap = TRUE /\ uncached = FALSE
  /\ file = None /\ loading = None /\ comparing = None /\ edits = 0
  /\ started = FALSE /\ joined = {} /\ channel = [p \in Peers |-> <<>>]
  /\ copy = [p \in Peers |-> None] /\ mapCopy = [p \in Peers |-> None]

EditIo ==
  \E k \in Kinds, n \in Ios :
    \/ \E type \in Types : IoCreate(k, n, type)
    \/ IoRemove(k, n)
    \/ \E c \in Constraints : AddConstraint(k, n, c)
    \/ \E note \in IoNotes : Annotate(k, n, note)
EditService ==
  \E n \in Ios :
    \/ ServiceInit(n) \/ ServiceRemove(n) \/ ServiceDescribe(n)
    \/ \E a \in Ios, type \in Types : EditArguments(n, a, type)
    \/ \E r \in Ios : ReplyAdd(n, r)
    \/ \E r \in Ios, a \in Ios, type \in Types : EditReply(n, r, a, type)
EditAgent ==
  \/ \E text \in Texts : SetText(text)
  \/ \E n \in Names : SetPackage(n) \/ SetClass(n) \/ SetName(n)
  \/ ClearDefinition
MappingStep ==
  \/ \E part \in {"maps", "splits"}, e \in Elements : EditMapping(part, e)
  \/ \E e \in Elements : LET m == [maps |-> <<e>>, splits |-> <<>>] IN MapRead(m) \/ MapCommand(m)
  \/ ClearMapping \/ MapLoad
FileStep == Save \/ LoadName \/ \E j \in Foreign \cup {file} : Load(j)

DefinitionNext ==
  \/ EditIo \/ EditService \/ EditAgent
  \/ MappingStep \/ FileStep
  \/ Start \/ Stop
  \/ \E p \in Peers : Join(p) \/ Receive(p)
  \/ DefinitionTimer \/ MappingTimer

\* The timers of the loop, the network, and a function that was called.
Fairness ==
  /\ WF_definitionVars(DefinitionTimer) /\ WF_definitionVars(MappingTimer)
  /\ \A p \in Peers : WF_definitionVars(Receive(p)) /\ WF_definitionVars(Join(p))
  /\ WF_definitionVars(LoadName) /\ WF_definitionVars(MapLoad)

DefinitionSpec == DefinitionInit /\ [][DefinitionNext]_definitionVars /\ Fairness

(***************************************************************************)
(* Properties.                                                             *)
(***************************************************************************)

\* The tables of a definition have one entry for each name.
DefinitionTypeOK ==
  /\ definition.name \in Names
  /\ \A k \in Kinds : NamesOnce(definition.ios[k])
  /\ NamesOnce(definition.services)
  /\ joined # {} => started
  /\ \A p \in Peers : channel[p] # <<>> \/ copy[p] # None => p \in joined

\* The cached texts are the exports of the documents at the end of every
\* edit, load and renaming; but for a constraint that was refused.
CacheCurrent == (uncached \/ json = Exports(definition)) /\ mapJson = MapExports(mapping)

\* A definition saved and loaded is the same, whatever edits it went through:
\* only callbacks, class_set_explicitly and the seventh decimal are lost.
Kept(d) ==
  [d EXCEPT !.explicit = FALSE, !.ios = ExportedIos(d.ios),
            !.services = MapSeq(d.services, LAMBDA s : [s EXCEPT !.cb = FALSE])]
SaveLoad == Loaded(Exported(definition)) = Kept(definition)

\* Each peer ends up with the documents of the agent, as far as its version
\* of the protocol tells them, whatever the edits, loads, starts and stops.
Agree(p) == /\ copy[p] = Loaded(ForPeer(json, p))
            /\ mapCopy[p] = MapForPeer(MapExports(mapping), p)
PeersCatchUp == <>[](started => \A p \in Peers : Agree(p))

\* ingescape.h: "names for optional replies shall be unique for a given
\* service".  Loading a definition does not look for replies it already has.
RepliesUnique == \A i \in DOMAIN definition.services : NamesOnce(definition.services[i].replies)
=============================================================================
