--------------------------- MODULE MCClipboardSync ---------------------------
(***************************************************************************)
(* Small instances of ClipboardSync: a server and a client, two texts and  *)
(* an image.                                                               *)
(***************************************************************************)
EXTENDS ClipboardSync

Both      == {"server", "client"}
OneText   == {"x"}
TwoTexts  == {"x", "y"}
TextImage == {"x", "y", "image"}
MCFormat  == [c \in Contents |-> IF c = "image" THEN "Png" ELSE "PlainText"]

ServerOnly == {"server"}

FirstRun  == [m \in Both |-> {"live"}]
SecondRun == [m \in Both |-> IF m = "server" THEN {"live", "stale"} ELSE {"live"}]
=============================================================================
