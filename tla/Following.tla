----------------------------- MODULE Following ------------------------------
(***************************************************************************)
(* Following BLE devices that change their address: the device key file,   *)
(* "Only these devices", the lists the board's controller is given, and    *)
(* what tells the user that a key is backwards before they decide that a   *)
(* device has gone.                                                        *)
(*                                                                         *)
(* A key is [of, reversed]: whose it is, and whether its bytes are the     *)
(* wrong way round.  A private address is [of, n]: made with the key of a  *)
(* device, which replaces it now and then.                                 *)
(***************************************************************************)
EXTENDS Integers, Sequences, SequencesExt, FiniteSets

CONSTANTS KeySetups,    \* a set of [lines, typed, near, holds]
          Addresses,    \* bound: private addresses a device goes through
          SEEN_LIMIT,   \* private addresses remembered before they are dropped
          After         \* heartbeats with nothing before a device is silent

MAX_DEVICE_KEYS == 8
MAX_BLE_FILTER == 8

VARIABLES
  setup,    \* the files and options, and the devices in the room
  stage,    \* "ready", "refused", "failed", "capturing"
  seen,     \* private addresses tested against every key
  reported, \* key lines reported, each with whether it was reversed
  heard,    \* the fixed addresses heard
  quiet,    \* heartbeats since each followed identity was last heard
  silent,   \* identities the user has been told are silent
  verdicts  \* what Check keys said of each line

fvars == <<setup, stage, seen, reported, heard, quiet, silent, verdicts>>

-----------------------------------------------------------------------------
(* The files and the options *)

\* _parse_key
KeyReads(line) == line.form # "malformed"

\* parse_key_file: the fields of a line, each of which may be wrong.
LineReads(line) ==
  /\ line.address # "malformed"
  /\ line.type \in {"public", "random"}
  /\ KeyReads(line)
  /\ line.form # "zero"

\* Every line reads, no identity has two keys, and there are some, not too many.
FileReads(lines, holds) ==
  /\ \A i \in 1 .. Len(lines) : LineReads(lines[i])
  /\ \A i, j \in 1 .. Len(lines) : lines[i].address = lines[j].address => i = j
  /\ Len(lines) \in 1 .. MAX_DEVICE_KEYS /\ Len(lines) <= holds

Keyed(lines, a) == {i \in 1 .. Len(lines) : lines[i].address = a}

\* filter_entries: an address in the key file has that identity's type; any
\* other is sent as both, its type not being in it.
\* mutant: as public, as it once was
FilterEntriesPublic(typed, lines) ==
  UNION {IF Keyed(lines, a) # {} THEN {<<lines[i].type, a>> : i \in Keyed(lines, a)}
         ELSE {<<"public", a>>} : a \in typed}
FilterEntries(typed, lines) ==
  UNION {IF Keyed(lines, a) # {} THEN {<<lines[i].type, a>> : i \in Keyed(lines, a)}
         ELSE {"public", "random"} \X {a} : a \in typed}

Accept == FilterEntries(setup.typed, setup.lines)

\* The checks main makes before a capture.
Usable(s) ==
  /\ s.lines # <<>> => FileReads(s.lines, s.holds)
  /\ "malformed" \notin s.typed
  /\ Cardinality(FilterEntries(s.typed, s.lines)) <= MAX_BLE_FILTER

\* encode_ble_keys and encode_ble_filter, when the session sends its lists.
EncodesKeys(lines) ==
  /\ Len(lines) <= MAX_DEVICE_KEYS
  /\ \A i \in 1 .. Len(lines) :
       lines[i].type \in {"public", "random"} /\ KeyReads(lines[i])
EncodesFilter(entries) ==
  /\ Cardinality(entries) <= MAX_BLE_FILTER
  /\ \A e \in entries : e[1] \in {"public", "random"} /\ e[2] # "malformed"

\* The identities that are both keyed and asked for.
Followed(s) ==
  {s.lines[i].address : i \in 1 .. Len(s.lines)}
    \cap {e[2] : e \in FilterEntries(s.typed, s.lines)}

FollowingInit(setups) ==
  /\ setup \in setups /\ stage = "ready"
  /\ seen = {} /\ reported = {} /\ heard = {} /\ silent = {} /\ verdicts = {}
  /\ quiet = [a \in Followed(setup) |-> 0]

Begin ==
  /\ stage = "ready"
  /\ stage' = IF ~Usable(setup) THEN "refused"
              ELSE IF EncodesKeys(setup.lines) /\ EncodesFilter(Accept)
                   THEN "capturing" ELSE "failed"
  /\ UNCHANGED <<setup, seen, reported, heard, quiet, silent, verdicts>>

-----------------------------------------------------------------------------
(* The controller *)

\* The line whose key a private address resolves with.
Resolving(d) ==
  {i \in 1 .. Len(setup.lines) :
     setup.lines[i].key = [of |-> d.name, reversed |-> FALSE]}

\* apply_keys: the resolving list turns an address it knows into the identity
\* written with the key, and leaves any other as it was sent.  Device privacy
\* mode: an identity sent as it is is reported too.  code: HCI's address type;
\* top: the top two bits of a random address.
Reports(d, n) ==
  IF ~d.private
  THEN {[code |-> IF d.type = "public" THEN 0 ELSE 1, top |-> 3, address |-> d.name]}
  ELSE IF Resolving(d) = {}
  THEN {[code |-> 1, top |-> 1, address |-> [of |-> d.name, n |-> n]]}
  ELSE {[code |-> IF setup.lines[i].type = "public" THEN 2 ELSE 3, top |-> 3,
         address |-> setup.lines[i].address] : i \in Resolving(d)}

\* AddressType.classify
Classify(r) ==
  CASE r.code = 0 -> "public"
    [] r.code = 2 -> "public identity"
    [] r.code = 3 -> "random identity"
    [] r.code = 1 /\ r.top = 3 -> "random static"
    [] r.code = 1 /\ r.top = 1 -> "resolvable private"
    [] r.code = 1 /\ r.top = 0 -> "non-resolvable private"
    [] OTHER -> "reserved"

\* _private_addresses: what the board did not resolve.
Unresolved(r) == Classify(r) = "resolvable private"

\* apply_filter and the scan's policy: with a list, only what is on it, an
\* identity as the type written with its key.
Accepted(r) ==
  \/ Accept = {}
  \/ /\ ~Unresolved(r)
     /\ <<IF r.code \in {0, 2} THEN "public" ELSE "random", r.address>> \in Accept

-----------------------------------------------------------------------------
(* What the host makes of it *)

\* resolves: the key's own hash of the address, or the reversed key's.
Resolves(key, reversed, a) == key = [of |-> a.of, reversed |-> reversed]

\* BackwardsKeyWatch.observe: a private address the board did not resolve is
\* tested once against each key not yet reported, both ways round.
Findings(a) ==
  {<<i, way>> \in (1 .. Len(setup.lines)) \X BOOLEAN :
     /\ \A r \in reported : r[1] # i
     /\ Resolves(setup.lines[i].key, way, a)}

Test(r) ==
  /\ seen' = IF ~Unresolved(r) \/ r.address \in seen THEN seen
             ELSE (IF Cardinality(seen) >= SEEN_LIMIT THEN {} ELSE seen)
                    \cup {r.address}
  /\ reported' = IF ~Unresolved(r) \/ r.address \in seen \/ setup.lines = <<>>
                 THEN reported ELSE reported \cup Findings(r.address)

\* A record of the capture.
Hear(d) ==
  /\ stage = "capturing"
  /\ \E n \in Addresses : \E r \in Reports(d, n) :
       /\ Accepted(r)
       /\ Test(r)
       /\ heard' = IF Unresolved(r) THEN heard ELSE heard \cup {r.address}
       /\ quiet' = [a \in DOMAIN quiet |-> IF a = r.address THEN 0 ELSE quiet[a]]
  /\ UNCHANGED <<setup, stage, silent, verdicts>>

\* SilenceWatch.silent, once a second, from the heartbeat's thread.
HeartBeat ==
  /\ stage = "capturing"
  /\ quiet' = [a \in DOMAIN quiet |-> IF quiet[a] < After THEN quiet[a] + 1 ELSE After]
  /\ silent' = silent \cup {a \in DOMAIN quiet : quiet'[a] = After}
  /\ UNCHANGED <<setup, stage, seen, reported, heard, verdicts>>

\* KeyCheckResult.verdict, from the private addresses heard.
Verdict(key, addresses) ==
  IF \E a \in addresses : Resolves(key, FALSE, a) THEN "correct"
  ELSE IF \E a \in addresses : Resolves(key, TRUE, a) THEN "backwards"
  ELSE "nothing matched"

\* KeyCheck: what a user told of a silence presses.  The board listens with no
\* keys and no filter, long enough to hear every device near.
CheckKeys ==
  /\ stage = "capturing" /\ silent # {} /\ verdicts = {}
  /\ \E n \in [{d \in setup.near : d.private} -> Addresses] :
       verdicts' = {<<i, Verdict(setup.lines[i].key,
                                 {[of |-> d.name, n |-> n[d]] : d \in DOMAIN n})>> :
                      i \in 1 .. Len(setup.lines)}
  /\ UNCHANGED <<setup, stage, seen, reported, heard, quiet, silent>>

FollowingNext ==
  \/ Begin \/ HeartBeat \/ CheckKeys
  \/ \E d \in setup.near : Hear(d)

-----------------------------------------------------------------------------
\* What a device is known by: the identities its key is written with, if it
\* changes its address, and its address if it does not.
NamesOf(d) ==
  IF d.private
  THEN {setup.lines[i].address :
          i \in {j \in 1 .. Len(setup.lines) :
                   \E way \in BOOLEAN :
                     setup.lines[j].key = [of |-> d.name, reversed |-> way]}}
  ELSE {d.name}

\* The check has said what is true of the key of an identity.
RightlyChecked(a) ==
  \E i \in Keyed(setup.lines, a) :
    <<i, IF ~\E d \in setup.near : d.private /\ a \in NamesOf(d) THEN "nothing matched"
         ELSE IF setup.lines[i].key.reversed THEN "backwards" ELSE "correct">>
      \in verdicts

(* A device in the room that the capture was asked for -- by its address,  *)
(* or by its key -- is heard by the name the user knows it by, or the user *)
(* is told why not: that its key is backwards, as the capture goes, or     *)
(* that it is silent, and then what its key is when they check.  Lists     *)
(* that main took before the capture pipe was opened can all be sent.      *)
FollowedOrTold ==
  (stage = "ready" /\ Usable(setup)) ~>
    \A d \in setup.near : \A a \in NamesOf(d) :
      (setup.typed = {} \/ a \in setup.typed) =>
         \/ a \in heard
         \/ \E i \in Keyed(setup.lines, a) : <<i, TRUE>> \in reported
         \/ a \in silent /\ RightlyChecked(a)

=============================================================================
