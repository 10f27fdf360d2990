------------------------ MODULE MCEncryptionCommand ------------------------
EXTENDS EncryptionCommand, TLC
CONSTANTS r1, r2, r3

(* Two requests may initialize the volume, one changes a passphrase.       *)
MCCommandOf == r1 :> "init" @@ r2 :> "init" @@ r3 :> "passphrase"
=============================================================================
