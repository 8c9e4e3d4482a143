----------------------------- MODULE KeyTables ------------------------------
(***************************************************************************)
(* Decryption keys and addresses, installed where Wireshark looks: a table *)
(* in its configuration and one in each profile of this project, which do  *)
(* not inherit it.  A capture given a Thread credential file installs as   *)
(* it starts, and so do two tools; each goes from table to table, reading  *)
(* and then writing whole files, and may end, or be killed, between any    *)
(* two steps.  A write is two of them: write_text empties the file as it   *)
(* opens it, and then writes what there is to write.                       *)
(***************************************************************************)
EXTENDS Integers, Sequences, SequencesExt, FiniteSets, FiniteSetsExt

CONSTANTS Commands,  \* what is run: see below
          Profiles,  \* the profiles there may be
          Users      \* the entries the tables may have of the user's own

\* A command is [tool, file, key, child, pan, list]: a tool, and its options,
\* each a set of at most one value.
ASSUME CommandsAssumption ==
  \A c \in Commands : c.tool \in {"capture", "thread_key", "zigbee_key"}
ASSUME ProfilesAssumption == IsFiniteSet(Profiles)

KEY_BYTES == 16
DefaultZigbeeKey == [key |-> "ZigBeeAlliance09", as |-> "Normal"]

VARIABLES
  tables,   \* [table, directory] -> its entries, {} when there is no file
  profiles, \* the profiles there are
  mine,     \* history: the entries that were the user's own
  job,      \* each command: [at, part, todo, found]
  raced,    \* history: a table's entries lost to what was written, or left
            \* unwritten, meanwhile
  torn,     \* history: tables read while another was writing them, or left
            \* empty by one that was
  paths     \* history: the directories each part of a command goes through

kvars == <<tables, profiles, mine, job, raced, torn, paths>>

-----------------------------------------------------------------------------
(* The files *)

Bytes(f) ==
  FoldLeft(LAMBDA n, tlv : n + 2 + tlv.present, f.extra, f.tlvs)

\* parse_dataset: every record whole, and nothing after the last.
DatasetReads(f) ==
  /\ \A i \in 1 .. Len(f.tlvs) : f.tlvs[i].present = f.tlvs[i].length
  /\ f.extra = 0

\* credentials_from_dataset: the key's record, of its length.
DatasetKey(f) ==
  {f.tlvs[i].value : i \in {k \in 1 .. Len(f.tlvs) : f.tlvs[k].type = "network key"}}

\* read_credentials: the keys in a file, none when it is refused.  Exactly a
\* key's length is a key; anything longer is a dataset.
ReadCredentials(f) ==
  IF ~f.readable \/ ~f.hex \/ f.odd \/ Bytes(f) < KEY_BYTES THEN {}
  ELSE IF Bytes(f) = KEY_BYTES THEN {f.bare}
  ELSE IF \/ ~DatasetReads(f)
          \/ \E i \in 1 .. Len(f.tlvs) :
               f.tlvs[i].type = "network key" /\ f.tlvs[i].length # KEY_BYTES
       THEN {}
  ELSE DatasetKey(f)

\* normalise_key: a key typed on the command line.
NormaliseKey(k) == IF k.hex /\ k.digits = 2 * KEY_BYTES THEN {k.bare} ELSE {}

\* The PAN a dataset names; a bare key names none.
DatasetPan(f) ==
  IF ReadCredentials(f) = {} \/ Bytes(f) = KEY_BYTES THEN {}
  ELSE {f.tlvs[i].value : i \in {k \in 1 .. Len(f.tlvs) : f.tlvs[k].type = "PAN"}}

\* _pairing: a unicast short address, and a long one.
PairingReads(row) == row.long /\ row.short

\* parse_child_table: refused whole when any row does not read, or comes before
\* the table's header.
ParseChildTable(rows) ==
  IF \A i \in 1 .. Len(rows) :
       /\ rows[i].kind \in {"skip", "header", "cells", "pair"}
       /\ rows[i].kind = "cells" => \E h \in 1 .. i : rows[h].kind = "header"
       /\ rows[i].kind \in {"cells", "pair"} => PairingReads(rows[i])
  THEN {rows[i].pairing : i \in {k \in 1 .. Len(rows) : rows[k].kind \in {"cells", "pair"}}}
  ELSE {}

-----------------------------------------------------------------------------
(* What a command installs, in order: [table, lines] *)

\* With no lines to install, no table is opened.
Into(table, lines) ==
  IF lines = {} THEN <<>> ELSE <<[table |-> table, lines |-> lines]>>

\* The capture: a Thread key, with index 0.
Capture(c) ==
  Into("keys", {[key |-> k, as |-> "0"] :
                  k \in UNION {ReadCredentials(f) : f \in c.file}})

\* install_child_table: the pairs, in a PAN that is given or the dataset's.
ChildTable(c) ==
  {[key |-> pairing, as |-> pan] :
     pairing \in UNION {ParseChildTable(rows) : rows \in c.child},
     pan \in IF c.pan # {} THEN c.pan ELSE UNION {DatasetPan(f) : f \in c.file}}

\* thread_key.py: a child table that is refused ends it, whatever else it was
\* given; with two keys, or to list them, it installs none.
ThreadKey(c) ==
  LET addresses == ChildTable(c)
      keys == IF c.list \/ (c.file # {} /\ c.key # {}) THEN {}
              ELSE UNION {ReadCredentials(f) : f \in c.file}
                     \cup UNION {NormaliseKey(k) : k \in c.key}
  IN  IF c.child # {} /\ addresses = {} THEN <<>>
      ELSE Into("addresses", addresses)
             \o Into("keys", {[key |-> k, as |-> "0"] : k \in keys})

\* zigbee_key.py
ZigbeeKey(c) ==
  Into("zigbee", IF c.list THEN {} ELSE {DefaultZigbeeKey})

Installs(c) ==
  CASE c.tool = "capture" -> Capture(c)
    [] c.tool = "thread_key" -> ThreadKey(c)
    [] c.tool = "zigbee_key" -> ZigbeeKey(c)

\* An entry a table has: the same line, or for Zigbee the same key, which may
\* be spelled otherwise.
Has(table, found, line) ==
  IF table = "zigbee" THEN \E e \in found : e.key = line.key ELSE line \in found

Missing(part, found) == {l \in part.lines : ~Has(part.table, found, l)}

-----------------------------------------------------------------------------
\* _table_paths: the root's, and every profile's, in order.
TablePaths == <<"root">> \o SetToSeq(profiles)

TablesInit(users) ==
  /\ tables \in {[t \in {"keys", "addresses", "zigbee"} \X ({"root"} \cup Profiles) |->
                    IF t[2] = "root" THEN u[t[1]] ELSE {}] : u \in users}
  /\ profiles \in SUBSET Profiles
  /\ mine = tables
  /\ job = [c \in Commands |-> [at |-> "idle", part |-> 1, todo |-> <<>>, found |-> {}]]
  /\ raced = [t \in DOMAIN tables |-> {}] /\ torn = {}
  /\ paths = [c \in Commands |-> <<>>]

\* Another version's installer adds a profile.
AddProfile ==
  /\ \E p \in Profiles \ profiles : profiles' = profiles \cup {p}
  /\ UNCHANGED <<tables, mine, job, raced, torn, paths>>

StartInstall(c) ==
  /\ job[c].at = "idle" /\ Installs(c) # <<>>
  /\ job' = [job EXCEPT ![c] = [at |-> "read", part |-> 1, todo |-> TablePaths, found |-> {}]]
  /\ paths' = [paths EXCEPT ![c] = <<{"root"} \cup profiles>>]
  /\ UNCHANGED <<tables, profiles, mine, raced, torn>>

\* The next table, or the next thing to install, whose tables are then looked up.
NextTable(c, s) ==
  CASE Len(s.todo) > 1 -> [s EXCEPT !.at = "read", !.todo = Tail(s.todo)]
    [] Len(s.todo) <= 1 /\ s.part < Len(Installs(c)) ->
         [s EXCEPT !.at = "read", !.part = @ + 1, !.todo = TablePaths]
    [] OTHER -> [s EXCEPT !.at = "done", !.todo = <<>>]

GoesOn(c, s) ==
  /\ job' = [job EXCEPT ![c] = s]
  /\ paths' = IF s.part = job[c].part THEN paths
              ELSE [paths EXCEPT ![c] = Append(@, {"root"} \cup profiles)]

\* Where a command is, and what it would have the table there be.
Part(c) == Installs(c)[job[c].part]
Target(c) == <<Part(c).table, job[c].todo[1]>>
New(c) == job[c].found \cup Missing(Part(c), job[c].found)

\* A table a command has emptied and not written yet.
Rewritten(t) == \E c \in Commands : job[c].at = "fill" /\ Target(c) = t

\* What was just read is what will be written back, and what is missing.
TakesText(c) ==
  /\ GoesOn(c, [job[c] EXCEPT !.at = "write", !.found = tables[Target(c)]])
  /\ torn' = torn \cup IF Rewritten(Target(c)) THEN {Target(c)} ELSE {}

\* install_key, install_addresses and install_default_key: a table is read,
\* and the next turned to when nothing is missing.  install_default_key then
\* reads the whole text, a second time.
\* mutant: nothing more to do once a table has it
ReadTableOnce(c) ==
  /\ job[c].at = "read"
  /\ \/ /\ Missing(Part(c), tables[Target(c)]) = {}
        /\ GoesOn(c, [job[c] EXCEPT !.at = "done"])
        /\ UNCHANGED torn
     \/ /\ Missing(Part(c), tables[Target(c)]) # {}
        /\ TakesText(c)
  /\ UNCHANGED <<tables, profiles, mine, raced>>
ReadTable(c) ==
  /\ job[c].at = "read"
  /\ \/ /\ Missing(Part(c), tables[Target(c)]) = {}
        /\ GoesOn(c, NextTable(c, job[c]))
        /\ UNCHANGED torn
     \/ /\ Missing(Part(c), tables[Target(c)]) # {}
        /\ Part(c).table = "zigbee"
        /\ GoesOn(c, [job[c] EXCEPT !.at = "again"])
        /\ UNCHANGED torn
     \/ /\ Missing(Part(c), tables[Target(c)]) # {}
        /\ Part(c).table # "zigbee"
        /\ TakesText(c)
  /\ UNCHANGED <<tables, profiles, mine, raced>>
ReadAgain(c) ==
  /\ job[c].at = "again"
  /\ TakesText(c)
  /\ UNCHANGED <<tables, profiles, mine, raced>>

\* write_text: the file is emptied, for whoever reads it now.
EmptyTable(c) ==
  /\ job[c].at = "write"
  /\ tables' = [tables EXCEPT ![Target(c)] = {}]
  /\ raced' = [raced EXCEPT ![Target(c)] = @ \cup (tables[Target(c)] \ New(c))]
  /\ GoesOn(c, [job[c] EXCEPT !.at = "fill"])
  /\ UNCHANGED <<profiles, mine, torn>>

\* It writes from the file's start: of what another has written since it was
\* emptied, only what is beyond the end may be left.
FillTable(c) ==
  /\ job[c].at = "fill"
  /\ \E left \in SUBSET (tables[Target(c)] \ New(c)) :
       LET now == New(c) \cup left IN
       /\ tables' = [tables EXCEPT ![Target(c)] = now]
       /\ raced' = [raced EXCEPT ![Target(c)] =
                     (@ \cup tables[Target(c)]) \ now]
  /\ GoesOn(c, NextTable(c, job[c]))
  /\ UNCHANGED <<profiles, mine, torn>>

\* A capture or a tool that ends, its install done or cut short, in the midst
\* of a write too; and the next that is given the same file.
EndInstall(c) ==
  /\ job[c].at # "idle"
  /\ job' = [job EXCEPT ![c] = [at |-> "idle", part |-> 1, todo |-> <<>>, found |-> {}]]
  /\ IF job[c].at = "fill"
     THEN /\ torn' = torn \cup {Target(c)}
          /\ raced' = [raced EXCEPT ![Target(c)] = @ \cup (New(c) \ tables[Target(c)])]
     ELSE UNCHANGED <<raced, torn>>
  /\ UNCHANGED <<tables, profiles, mine, paths>>

TablesNext ==
  \/ AddProfile
  \/ \E c \in Commands :
       \/ StartInstall(c) \/ ReadTable(c) \/ ReadAgain(c)
       \/ EmptyTable(c) \/ FillTable(c) \/ EndInstall(c)

-----------------------------------------------------------------------------
(* Entries accumulate in every table nobody is just writing.  Those of the *)
(* user's own are in it, unless it was read while another was writing it,  *)
(* or one that was writing it was killed: no other order of reads and      *)
(* writes loses them.  And all that a command which is done installs is in *)
(* the tables of every profile there was, whatever an earlier one cut      *)
(* short had left undone, save what has since been lost to an install that *)
(* had read the table before, or was killed writing it.                    *)
EntriesAccumulate ==
  \A t \in DOMAIN tables : ~Rewritten(t) =>
    /\ t \notin torn => mine[t] \subseteq tables[t]
    /\ \A c \in Commands : job[c].at = "done" =>
         \A i \in 1 .. Len(Installs(c)) : \A d \in paths[c][i] :
           t = <<Installs(c)[i].table, d>> =>
             Missing(Installs(c)[i], tables[t] \cup raced[t]) = {}

=============================================================================
