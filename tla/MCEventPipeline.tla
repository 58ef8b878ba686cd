--------------------------- MODULE MCEventPipeline ---------------------------
(* Model values for checking EventPipeline with TLC: alice's note, message    *)
(* and tracks, her deletion of all of them, bob's forged one, and a           *)
(* moderator's.                                                               *)
EXTENDS EventPipeline, TLC
CONSTANTS note, chat, song, secret, byAlice, forged, mod, gone, alice, bob, carol

AllEvents == {note, chat, song, secret, byAlice, forged, mod}
Kinds == [e \in AllEvents \cup {gone} |->
  CASE e = note -> "note" [] e = chat -> "chat" [] e \in {song, secret} -> "track"
    [] e \in {byAlice, forged} -> "deletion" [] e = mod -> "modDelete"
    [] OTHER -> "note"]
Authors == [e \in AllEvents \cup {gone} |-> IF e = forged THEN bob ELSE IF e = mod THEN carol ELSE alice]
Times == [e \in AllEvents |-> CASE e = note -> 1 [] e = secret -> 4 [] e = chat -> 2 [] e = song -> 3
                                [] e = forged -> 5 [] e = byAlice -> 6 [] OTHER -> 7]
ETags == [e \in AllEvents |-> CASE e = byAlice -> <<note, chat>>
            [] e = forged -> <<chat, gone>> [] e = mod -> <<chat>> [] OTHER -> <<>>]
ATags == [e \in AllEvents |-> IF e \in {byAlice, forged} THEN {song, secret} ELSE {}]
OnlyChat == {chat}
OnlySecret == {secret}
OnlyCarol == {carol}

\* The tracks are not mixed with the note nor with the moderator's deletion, and the
\* private one not with the message, with which they share nothing but the buffer.
Apart == LET here == seen \cup buf \cup entities
         IN  /\ {note, mod} \cap here = {} \/ {song, secret} \cap here = {}
             /\ ~({chat, secret} \subseteq here)

\* A row leaves IndexedDB while nothing is under way.  It makes no difference before
\* the restart, which drops what is under way.
ExpiresAtRest ==
  applied \cap Deletions \subseteq persisted \/ verifying \cup decrypting \cup buf = {}
=============================================================================
