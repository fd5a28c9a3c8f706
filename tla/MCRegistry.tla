----------------------------- MODULE MCRegistry -----------------------------
(***************************************************************************)
(* Registry over two emulators and three binaries.  The game imports a     *)
(* stubbed function and an unknown one, and defines a key setter that      *)
(* three detectors claim under two names, a constructor whose address a    *)
(* registered name shares, and JNI_OnLoad.  The engine imports the key     *)
(* setter from another library.  The tool has neither JNI nor cocos2d-x.   *)
(***************************************************************************)
EXTENDS Registry, TLC

MCName == {"malloc", "open64", "setKey", "setKeyAlias", "ctor", "memcpy",
           "JNI_OnLoad", "lua_gettop"}

MCGame == [imports |-> "malloc" :> 1 @@ "open64" :> 2,
           symbols |-> "malloc" :> 1 @@ "open64" :> 2
                       @@ "setKey" :> 3 @@ "setKeyAlias" :> 3
                       @@ "ctor" :> 4 @@ "memcpy" :> 4
                       @@ "JNI_OnLoad" :> 5 @@ "lua_gettop" :> 6]

MCEngine == [imports |-> "malloc" :> 7 @@ "setKey" :> 8,
             symbols |-> "malloc" :> 7 @@ "setKey" :> 8 @@ "lua_gettop" :> 9]

MCTool == [imports |-> "open64" :> 10 @@ "memcpy" :> 11,
           symbols |-> "open64" :> 10 @@ "memcpy" :> 11 @@ "ctor" :> 12]

MCAddr == 1..12

MCBinary == {MCGame, MCEngine, MCTool}

MCDetectors == <<"cxxabi-string", "internal-mock", "jni", "cocos2dx",
                 "unity-il2cpp">>

MCTriggers == "cxxabi-string" :> {"ctor"}
              @@ "internal-mock" :> {"lua_gettop"}
              @@ "jni" :> {"JNI_OnLoad"}
              @@ "cocos2dx" :> {"setKey"}
              @@ "unity-il2cpp" :> {"setKeyAlias"}

MCClaims == "cxxabi-string" :> {"ctor"}
            @@ "internal-mock" :> {"lua_gettop", "setKeyAlias", "open64"}
            @@ "jni" :> {}
            @@ "cocos2dx" :> {"setKey", "setKeyAlias"}
            @@ "unity-il2cpp" :> {"setKeyAlias"}
=============================================================================
