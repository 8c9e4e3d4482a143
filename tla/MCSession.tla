----------------------------- MODULE MCSession ------------------------------
(* Session with the options that change what open() does, on both boards.  *)
EXTENDS Session

Option(client, radio, recover, asked, hears, bridged) ==
  [client |-> client, radio |-> radio, recover |-> recover, asked |-> asked,
   hears |-> hears, bridged |-> bridged]

All == {"mgmt", "data", "ctrl"}

MCSessions ==
  {Option("session", "wifi", recover, asked, All, FALSE) :
     recover \in BOOLEAN, asked \in {{}, {"snaplen", "filter"}, {"csi", "bandwidth"}}}
  \cup {Option("session", "wifi", TRUE, {"filter"}, {"data"}, FALSE),
        Option("session", "802154", TRUE, {}, All, TRUE),
        Option("session", "802154", TRUE, {}, All, FALSE),
        Option("link", "802154", FALSE, {}, All, FALSE),
        Option("link", "ble", FALSE, {}, All, TRUE)}
  \cup {Option("session", "ble", TRUE, asked, All, bridged) :
        asked \in {{}, {"phys"}}, bridged \in BOOLEAN}

=============================================================================
