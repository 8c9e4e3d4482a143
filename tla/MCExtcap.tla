------------------------------ MODULE MCExtcap ------------------------------
(* Extcap called for whole captures with and without a toolbar and hopping, *)
(* with two boards attached, and, with nobody there to open, with every     *)
(* option the dialogs list and some they do not.                            *)
EXTENDS Extcap

C6 == [port |-> "A", board |-> "esp32c6"]
nRF == [port |-> "B", board |-> "nrf54l15"]
Other == [port |-> "C", board |-> "other"]

Named(board, radio, port) ==
  [interface |-> [board |-> board, radio |-> radio], port |-> port]
Args(channel, set) ==
  [port |-> "default", channel |-> channel, hop |-> set, dwell |-> 500,
   snaplen |-> NotGiven, phys |-> NotGiven]
Setup(attached, chosen, args, files, dataset, bar) ==
  [attached |-> attached, chosen |-> chosen, args |-> args, files |-> files,
   dataset |-> dataset, toolbar |-> bar]

Whole ==
  {Setup(<<Other, C6>>, Named("esp32c6", "802154", "default"),
         Args(20, h), TRUE, NotGiven, bar) : h \in {0, 1}, bar \in BOOLEAN}
Two ==
  UNION {{Setup(attached, c, Args(NotGiven, 0), TRUE, NotGiven, FALSE) :
            c \in BoardInterfaces(attached)} :
         attached \in {<<nRF, C6>>, <<nRF>>}}
Dry ==
  {Setup(<<>>, c, a, TRUE, NotGiven, TRUE) :
     c \in BoardInterfaces(<<>>),
     a \in UNION {Offered(<<>>, i) : i \in INTERFACES}}
Wrong ==
  {Setup(<<C6>>, Named("esp32c6", "802154", "default"), Args(11, h), files,
         dataset, FALSE) :
     h \in {0, 4, 5}, files \in BOOLEAN, dataset \in {15, 27}}

MCSetups == Whole \cup Two \cup Dry \cup Wrong
MCPicked == {[prefix |-> "z", number |-> 20], [prefix |-> "w", number |-> 12]}
MCNotes == <<"handed back", "hopping">>

=============================================================================
