-------------------------- MODULE MCGuestServices --------------------------
(***************************************************************************)
(* GuestServices for guests that each import a few services: the numbers   *)
(* of JNI references, descriptors and blocks are so few that they run out. *)
(***************************************************************************)
EXTENDS GuestServices, TLC

ASSUME SmallGuests

\* The order of the offsets is the code's, the distances are scaled down.
MCJniFirst == ("string" :> 16 @@ "class" :> 32 @@ "method" :> 48
               @@ "static method" :> 72 @@ "field" :> 120
               @@ "static field" :> 144)

MCJniGiven == ("generic" :> 0 @@ "object class" :> 96 @@ "result" :> 104
               @@ "static result" :> 112)

MCEnvDefaults == "PATH" :> 7

MCIPs == {<<10, 0, 0, 2>>}

MCServices == {-1, 443, 70000}

MCPrograms == {{"heap"}, {"jni"}, {"jni objects"}, {"descriptors"}, {"files"},
               {"threads"}, {"tls"}, {"cxxabi"}, {"dl"}, {"network"},
               {"environment"}, {"lua"}, {"locale", "dl"}}
=============================================================================
