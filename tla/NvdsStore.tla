----------------------------- MODULE NvdsStore -----------------------------
(***************************************************************************)
(* What nvds_flash.h promises of the key/value store, and nothing of how   *)
(* it keeps it: a dictionary that only the call in flight may change, and  *)
(* what a power cut may do to it.  Nvds.tla implements this specification. *)
(*                                                                         *)
(* Two outcomes are weaker than a reader of the header would expect, and   *)
(* are the code's: a put that fails for want of space has already removed  *)
(* the old value, and a power cut may lose any value.  What never happens, *)
(* at any time, is that a key shows a value other than the last one given  *)
(* to it, or that before the first power cut a put returns NVDS_OK and its *)
(* value, or another key's, cannot be read.                                *)
(***************************************************************************)
CONSTANTS Keys, Vals, Absent    \* Absent is no value (NvdsAssumption)

VARIABLES
    dict,    \* what nvds_data_get would return for each key
    call,    \* the call that holds nvds_mutex
    ret,     \* the result of the last call, "cut" if it got none
    cut      \* "none", or that the power was cut since the store was last
             \* empty: in a "call", or in nvds_clean ("clean")

storeVars == <<dict, call, ret, cut>>

NoCall == [fn |-> "none"]
Calls == [fn : {"put"}, k : Keys, v : Vals] \cup [fn : {"del"}, k : Keys]
         \cup [fn : {"clean"}]

StoreInit ==
    /\ dict = [k \in Keys |-> Absent]
    /\ call = NoCall
    /\ ret = "ok"
    /\ cut = "none"

Begin(c) ==
    /\ call = NoCall
    /\ call' = c
    /\ UNCHANGED <<dict, ret, cut>>

\* A failed put has removed the old value.
PutReturns ==
    /\ call.fn = "put"
    /\ \/ ret' = "ok" /\ dict' = [dict EXCEPT ![call.k] = call.v]
       \/ ret' = "ok" /\ cut # "none" /\ dict' = [dict EXCEPT ![call.k] = Absent]
       \/ ret' = "no_space" /\ dict' = [dict EXCEPT ![call.k] = Absent]
    /\ call' = NoCall
    /\ UNCHANGED cut

DelReturns ==
    /\ call.fn = "del"
    /\ ret' = "ok"
    /\ dict' = [dict EXCEPT ![call.k] = Absent]
    /\ call' = NoCall
    /\ UNCHANGED cut

CleanReturns ==
    /\ call.fn = "clean"
    /\ ret' = "ok"
    /\ dict' = [k \in Keys |-> Absent]
    /\ call' = NoCall
    /\ cut' = "none"

\* The value being put may be there or not; any other key keeps its value or
\* loses it.
PowerCut ==
    /\ \A k \in Keys :
          dict'[k] \in {dict[k], Absent}
                       \cup IF call.fn = "put" /\ call.k = k THEN {call.v} ELSE {}
    /\ dict' \in [Keys -> Vals \cup {Absent}]
    /\ call' = NoCall
    /\ cut' = IF call.fn = "clean" THEN "clean" ELSE "call"
    /\ ret' = "cut"

\* An area that was erased in part only promises nothing, until a call of
\* nvds_clean returns.
HalfErased == cut = "clean" /\ cut' \in {"clean", "none"}

StoreNext ==
    \/ \E c \in Calls : Begin(c)
    \/ PutReturns \/ DelReturns \/ CleanReturns
    \/ PowerCut
    \/ HalfErased

StoreSpec == StoreInit /\ [][StoreNext]_storeVars
=============================================================================
