------------------------------ MODULE Singleton -----------------------------
(***************************************************************************)
(* The singletons of cpp/design_pattern under concurrent use.               *)
(* singelton_safe.cpp and singleton_lazy_safty.cpp test the pointer, lock,   *)
(* test again and create, and can delete the instance; the lazy versions      *)
(* test and create without a lock.  The pointer is read outside the lock      *)
(* once before and once after.                                              *)
(***************************************************************************)
EXTENDS Naturals, FiniteSets

CONSTANTS Callers, Nobody

VARIABLES locked,    \* which version
          instance,  \* m_SingleInstance
          m_Mutex,   \* its owner
          live,      \* objects constructed and not deleted
          at,        \* caller -> where it is in GetInstance() or deleteInstance()
          returned,  \* lazy version: some call has returned
          early      \* lazy version: the callers that entered before that

vars == <<locked, instance, m_Mutex, live, at, returned, early>>
NULL == 0
Addresses == 1 .. Cardinality(Callers) + 1

TypeOK ==
    /\ locked \in BOOLEAN /\ returned \in BOOLEAN /\ early \subseteq Callers
    /\ instance \in Addresses \cup {NULL} /\ live \subseteq Addresses
    /\ m_Mutex \in Callers \cup {Nobody}
    /\ \A t \in Callers : at[t].pc \in {"idle", "lock", "test", "new", "store", "return", "delete"}

Init ==
    /\ locked \in BOOLEAN
    /\ instance = NULL /\ m_Mutex = Nobody /\ live = {} /\ returned = FALSE /\ early = {}
    /\ at = [t \in Callers |-> [pc |-> "idle", made |-> NULL]]

Goes(t, pc) == at' = [at EXCEPT ![t].pc = pc]

\* The first test, without the lock.
GetInstance(t) ==
    /\ at[t].pc = "idle"
    /\ Goes(t, IF instance # NULL THEN "return" ELSE IF locked THEN "lock" ELSE "new")
    /\ early' = IF locked \/ returned THEN early ELSE early \cup {t}
    /\ UNCHANGED <<locked, instance, m_Mutex, live, returned>>

Lock(t) ==
    /\ at[t].pc = "lock" /\ m_Mutex = Nobody
    /\ m_Mutex' = t /\ Goes(t, "test")
    /\ UNCHANGED <<locked, instance, live, returned, early>>

SecondTest_Trusts(t) ==
    /\ at[t].pc = "test"
    /\ Goes(t, "new") /\ UNCHANGED <<locked, instance, m_Mutex, live, returned, early>>
SecondTest(t) ==
    /\ at[t].pc = "test"
    /\ IF instance = NULL
       THEN Goes(t, "new") /\ UNCHANGED m_Mutex
       ELSE Goes(t, "return") /\ m_Mutex' = Nobody
    /\ UNCHANGED <<locked, instance, live, returned, early>>

\* The allocator returns the lowest free address; new (std::nothrow) may also return NULL.
New(t) ==
    /\ at[t].pc = "new"
    /\ \E a \in {CHOOSE a \in Addresses \ live : \A b \in Addresses \ live : a <= b}
                  \cup (IF locked THEN {NULL} ELSE {}) :
          /\ live' = live \cup ({a} \ {NULL})
          /\ at' = [at EXCEPT ![t] = [pc |-> "store", made |-> a]]
    /\ UNCHANGED <<locked, instance, m_Mutex, returned, early>>

Store(t) ==
    /\ at[t].pc = "store"
    /\ instance' = at[t].made
    /\ at' = [at EXCEPT ![t] = [pc |-> "return", made |-> NULL]]
    /\ m_Mutex' = IF locked THEN Nobody ELSE m_Mutex
    /\ UNCHANGED <<locked, live, returned, early>>

\* "return m_SingleInstance" reads the pointer again.
Return(t) ==
    /\ at[t].pc = "return"
    /\ Goes(t, "idle") /\ returned' = (returned \/ ~ locked)
    /\ early' = early \ {t}
    /\ UNCHANGED <<locked, instance, m_Mutex, live>>

LockDelete(t) ==
    /\ locked /\ at[t].pc = "idle" /\ m_Mutex = Nobody
    /\ m_Mutex' = t /\ Goes(t, "delete")
    /\ UNCHANGED <<locked, instance, live, returned, early>>

deleteInstance(t) ==
    /\ at[t].pc = "delete"
    /\ live' = live \ {instance} /\ instance' = NULL
    /\ m_Mutex' = Nobody /\ Goes(t, "idle")
    /\ UNCHANGED <<locked, returned, early>>

Step(t) == Lock(t) \/ SecondTest(t) \/ New(t) \/ Store(t) \/ Return(t) \/ deleteInstance(t)
Next == \E t \in Callers : GetInstance(t) \/ LockDelete(t) \/ Step(t)

-----------------------------------------------------------------------------
\* With the lock there is never more than one object, and it is the one the pointer shows
\* whenever nobody is inside, whatever is deleted and created again in between.  Without
\* it every caller that entered before the first return may make one, and the pointer ends
\* at one of them; a caller that enters later makes none.
OneInstance ==
    /\ TypeOK
    /\ locked => /\ Cardinality(live) <= 1
                 /\ m_Mutex = Nobody => live = {instance} \ {NULL}
    /\ ~ locked => /\ instance # NULL => instance \in live
                   /\ \A t \in Callers : at[t].pc \in {"new", "store"} => t \in early

\* A call that has begun returns.
CallsReturn == \A t \in Callers : at[t].pc # "idle" ~> at[t].pc = "idle"
=============================================================================
