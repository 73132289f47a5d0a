------------------------------ MODULE MCAgentUI ------------------------------
(***************************************************************************)
(* Inputs for AgentUI: a URL reUrl accepts and a bare host name it refuses *)
(* (it needs a dot); a vSphere SSO user reEmail accepts and a bare user    *)
(* name it refuses (it needs an @ and a domain).                           *)
(***************************************************************************)
EXTENDS AgentUI, TLC

MCUrlInputs == {"https://vcenter.example.com/sdk", "vcenter"}
MCUserInputs == {"administrator@vsphere.local", "administrator"}
MCReUrlOK == "https://vcenter.example.com/sdk" :> TRUE @@ "vcenter" :> FALSE
MCReEmailOK == "administrator@vsphere.local" :> TRUE @@ "administrator" :> FALSE
=============================================================================
