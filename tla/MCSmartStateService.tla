------------------------ MODULE MCSmartStateService -------------------------
(***************************************************************************)
(* Model values for SmartStateService: three VMs of which the first has a  *)
(* blank vmPathName, one category, and cap texts that exercise the file    *)
(* over the environment, a trailing newline, and a non-numeric text.      *)
(***************************************************************************)
EXTENDS SmartStateService

CONSTANTS v1, v2, v3, accounts, services, t1, t2

MCThreads1 == {t1}
MCThreads2 == {t1, t2}

MCVMs == <<v1, v2, v3>>
MCDsPath == v1 :> <<" ">> @@ v2 :> <<"[", "d", "]">> @@ v3 :> <<"[", "d", "]">>
MCCategories1 == <<accounts>>
MCCategories2 == <<accounts, services>>
MCCapConfigs ==
    {[file |-> NoFile, env |-> Unset],          \* no cap
     [file |-> <<"1", "\n">>, env |-> <<"2">>], \* the file wins: cap 1
     [file |-> NoFile, env |-> <<"x">>]}        \* "x".to_i is 0: cap 0
MCCapNone == {[file |-> NoFile, env |-> Unset]}
MCNoCapFiles == {}
MCCapFiles == {<<"1", "\n">>}
MCTimeoutUnset == {Unset}
\* SMART_STATE_SERVICE_TIMEOUT_SEC unset, or set to "30".
MCTimeoutSettings == {Unset, <<"3", "0">>}
\* Every VM has a path: three VMs the loop counts.
MCDsPathAll == v1 :> <<"[", "d", "]">> @@ v2 :> <<"[", "d", "]">> @@ v3 :> <<"[", "d", "]">>
=============================================================================
