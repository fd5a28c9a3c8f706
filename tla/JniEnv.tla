------------------------------- MODULE JniEnv -------------------------------
(***************************************************************************)
(* The mocked JNI environment of jni/jni.go: classes, methods, fields and  *)
(* strings are references, numbers in a region of mock objects, handed out *)
(* by counters that each start at an offset of their own.  Static and      *)
(* instance methods (and fields) share a counter.                          *)
(***************************************************************************)
EXTENDS StubCalls

CONSTANTS MockObj,     \* Env.mockObjBase
          JniFirst,    \* the offset of the first reference of each kind
          JniGiven,    \* the offsets of the references that are constants
          JniClasses,  \* names of classes
          JniMethods,  \* names and signatures of methods
          JniFields,   \* names and signatures of fields
          JniTexts,    \* strings; one is given by its length
          JniLengths,  \* of byte arrays
          MaxRefs      \* bound: how often a counter moves

Kinds == {"string", "class", "method", "static method", "field", "static field"}

Counter(kind) == CASE kind = "static method" -> "method"
                   [] kind = "static field" -> "field"
                   [] OTHER -> kind

Counters == {Counter(kind) : kind \in Kinds}

ASSUME JniAssumption ==
  /\ MockObj \in Nat
  /\ JniFirst \in [Kinds -> Nat]
  /\ \A k, l \in Kinds : k # l => JniFirst[k] # JniFirst[l]
  /\ {"object class", "result", "static result", "generic"} \subseteq DOMAIN JniGiven
  /\ JniGiven \in [DOMAIN JniGiven -> Nat]
  /\ \A g, h \in DOMAIN JniGiven : g # h => JniGiven[g] # JniGiven[h]
  /\ \A g \in DOMAIN JniGiven, k \in Kinds : JniGiven[g] # JniFirst[k]
  /\ JniTexts \subseteq Nat /\ JniLengths \subseteq Word
  /\ MaxRefs \in Nat

VARIABLES nextRef,     \* how often each counter has moved
          refs,        \* classRefs, methodRefs and fieldRefs
          jniStrings,  \* Env.jniStrings
          madeStrings, \* history: the references NewStringUTF answered
          arrayLength  \* the headers of the byte arrays in guest memory

jniVars == <<nextRef, refs, jniStrings, madeStrings, arrayLength>>

\* NewEnv.
JniInit == /\ nextRef = [c \in Counters |-> 0]
           /\ refs = <<>>
           /\ jniStrings = <<>>
           /\ madeStrings = <<>>
           /\ arrayLength = <<>>

Put(f, x, v) == [y \in DOMAIN f \cup {x} |-> IF y = x THEN v ELSE f[y]]

NextRefOf(kind) == MockObj + JniFirst[kind] + 8 * nextRef[Counter(kind)]

\* The reference that name and signature have, or the next one.
GetRef(kind, key) ==
  IF <<kind, key>> \in DOMAIN refs
    THEN Answer(refs[<<kind, key>>]) /\ UNCHANGED jniVars
    ELSE /\ nextRef[Counter(kind)] < MaxRefs
         /\ Answer(NextRefOf(kind))
         /\ refs' = Put(refs, <<kind, key>>, NextRefOf(kind))
         /\ nextRef' = [nextRef EXCEPT ![Counter(kind)] = @ + 1]
         /\ UNCHANGED <<jniStrings, madeStrings, arrayLength>>

FindClass(name) == GetRef("class", name)
GetMethodID(key) == GetRef("method", key)
GetStaticMethodID(key) == GetRef("static method", key)
GetFieldID(key) == GetRef("field", key)
GetStaticFieldID(key) == GetRef("static field", key)

\* Every call makes a string object of its own.
NewStringUTF(text) ==
  /\ nextRef["string"] < MaxRefs
  /\ Answer(NextRefOf("string"))
  /\ jniStrings' = Put(jniStrings, NextRefOf("string"), text)
  /\ madeStrings' = Append(madeStrings, NextRefOf("string"))
  /\ nextRef' = [nextRef EXCEPT !["string"] = @ + 1]
  /\ UNCHANGED <<refs, arrayLength>>

\* The text of a reference that is not a string's is empty.
TextOf(ref) == IF ref \in DOMAIN jniStrings THEN jniStrings[ref] ELSE 0

GetStringUTFChars(ref) == Give(<<TextOf(ref) + 1>>, heapPtr) /\ UNCHANGED jniVars

GetStringUTFLength(ref) == Answer(TextOf(ref)) /\ UNCHANGED jniVars

\* The length goes to the start of the block and the elements after it.
NewByteArray(length) ==
  /\ GiveBlock(Malloc(Add(length, 16), length + 8))
  /\ arrayLength' = IF panicked' THEN arrayLength
                    ELSE Put(arrayLength, heapPtr, length)
  /\ UNCHANGED <<nextRef, refs, jniStrings, madeStrings>>

GetByteArrayElements(array) == Answer(Add(array, 8)) /\ UNCHANGED jniVars

GetArrayLength(array) == Answer(arrayLength[array]) /\ UNCHANGED jniVars

\* The hooks that answer a constant reference: GetObjectClass, the calls of
\* methods, and every function there is no handler for.
AnswerGiven(g) == Answer(MockObj + JniGiven[g]) /\ UNCHANGED jniVars

GetObjectClass == AnswerGiven("object class")
GetVersion == Answer(65542) /\ UNCHANGED jniVars
CallMethod == AnswerGiven("result")
CallStaticMethod == AnswerGiven("static result")
JNIGeneric == AnswerGiven("generic")

\* Global, local and weak references are the reference itself, and deleting
\* one is ignored; fields and exceptions are always null.
NewRef(ref) == Answer(ref) /\ UNCHANGED jniVars
DeleteRef == Return /\ UNCHANGED jniVars
CallVoidMethod == Return /\ UNCHANGED jniVars
GetField == Answer(0) /\ UNCHANGED jniVars
SetField == Return /\ UNCHANGED jniVars
Exceptions == Answer(0) /\ UNCHANGED jniVars
ExceptionClear == Return /\ UNCHANGED jniVars
Frames == Answer(0) /\ UNCHANGED jniVars
RegisterNatives == Answer(0) /\ UNCHANGED jniVars
GetJavaVM == Answer(0) /\ UNCHANGED jniVars
JavaVMStubs == Answer(0) /\ UNCHANGED jniVars
PopLocalFrame(ref) == Answer(ref) /\ UNCHANGED jniVars
IsSameObject(a, b) == Answer(IF a = b THEN 1 ELSE 0) /\ UNCHANGED jniVars

\* The references that are constants.
GivenRefs == {MockObj + JniGiven[g] : g \in DOMAIN JniGiven}

\* What the guest has been given: its references, by what they stand for.
JniHandles ==
  [t \in DOMAIN refs \cup {"string"} \X DOMAIN madeStrings |->
     IF t[1] = "string" THEN madeStrings[t[2]] ELSE refs[t]]

Refs == GivenRefs \cup {JniHandles[t] : t \in DOMAIN JniHandles}

\* What a guest does to find its way among classes ...
JniLookups ==
  \/ \E name \in JniClasses : FindClass(name)
  \/ \E key \in JniMethods : GetMethodID(key) \/ GetStaticMethodID(key)
  \/ \E key \in JniFields : GetFieldID(key) \/ GetStaticFieldID(key)
  \/ GetVersion
  \/ GetObjectClass
  \/ CallMethod
  \/ CallStaticMethod
  \/ JNIGeneric
  \/ DeleteRef
  \/ CallVoidMethod
  \/ GetField
  \/ SetField
  \/ Exceptions
  \/ ExceptionClear
  \/ Frames
  \/ RegisterNatives
  \/ GetJavaVM
  \/ JavaVMStubs

\* ... and with objects.
JniObjects ==
  \/ \E name \in JniClasses : FindClass(name)
  \/ \E text \in JniTexts : NewStringUTF(text)
  \/ \E ref \in Refs : \/ GetStringUTFChars(ref)
                       \/ GetStringUTFLength(ref)
                       \/ NewRef(ref)
                       \/ PopLocalFrame(ref)
                       \/ IsSameObject(ref, ref)
                       \/ IsSameObject(ref, MockObj)
  \/ \E length \in JniLengths : NewByteArray(length)
  \/ \E array \in DOMAIN arrayLength : \/ GetByteArrayElements(array)
                                       \/ GetArrayLength(array)

\* The references of a kind end where the next kind's, or a constant, begins:
\* the values of its counter for which one that was handed out is beyond that.
Beyond ==
  [kind \in Kinds |->
     {n \in 0..MaxRefs :
        \E other \in {JniFirst[k] : k \in Kinds}
                     \cup {JniGiven[g] : g \in DOMAIN JniGiven} :
          JniFirst[kind] < other /\ other < JniFirst[kind] + 8 * n}]

JniExhausted == \E kind \in Kinds : nextRef[Counter(kind)] \in Beyond[kind]

JniTypeOK ==
  /\ nextRef \in [Counters -> 0..MaxRefs]
  /\ DOMAIN refs \subseteq
       (Kinds \ {"string"}) \X (JniClasses \cup JniMethods \cup JniFields)
  /\ refs \in [DOMAIN refs -> Nat]
  /\ madeStrings \in Seq(Nat)
  /\ \A r \in DOMAIN jniStrings : jniStrings[r] \in JniTexts
  /\ \A a \in DOMAIN arrayLength : a \in Word /\ arrayLength[a] \in JniLengths

\* Classes, methods, fields and strings are told apart by their references,
\* and keep them, until one of the counters reaches the offset of another
\* kind: after 512 strings (jni/jni.go:298-310, 469-558, 629-671).
JniTable == INSTANCE HandleTable WITH
              Taken <- GivenRefs, handles <- JniHandles,
              exhausted <- JniExhausted
=============================================================================
