------------------------------- MODULE MCStores -------------------------------
(***************************************************************************)
(* The parts whose properties are safety properties, for TLC: the transfer  *)
(* manager, the checkpoint store, the audio ring, the recorder, the usage   *)
(* tracker, the firewall, the DNS cache, the rate limiter, the media path   *)
(* and the file service.  They share no state and are checked side by side, *)
(* one of them from the start.                                              *)
(***************************************************************************)
EXTENDS Transfer, CheckpointStore, AudioBuffer, SessionRecorder, UsageTracker, Firewall,
        DNSCache, RateLimit, MediaPath, FileStore

\* A group of two rules, one that lists a rule twice, one with a rule that
\* does not exist.
MCRuleLists == {<<1, 2>>, <<2, 2>>, <<0, 3, 2>>}

\* A request of a user who is logged in.
MCKeysOf == {<<"i", "u">>}

\* A desktop whose stream mixes both start codes with units that fit a packet,
\* fill their last fragment or do not, and a gaming encoder that ends early or
\* writes a short stream.
Coded(code, body) == [code |-> code, body |-> body]

Short == <<Coded(3, <<2>>), Coded(4, <<2>>)>>
Fragmented == <<Coded(4, <<2, 0, 2, 0, 2>>), Coded(3, <<2>>), Coded(4, <<2, 0, 0, 2>>),
                Coded(3, <<2, 1>>)>>
Even == <<Coded(3, <<2, 2>>), Coded(4, <<2, 1, 2>>), Coded(4, <<2>>), Coded(3, <<2>>)>>

MCOutputs == [e \in {"desktop", "gaming"} |->
                 IF e = "gaming" THEN {<< >>, Short} ELSE {Fragmented, Even}]

VARIABLE part
listVars == <<recorderVars, usageVars, firewallVars>>
limitVars == <<dnsVars, rateVars>>
streamVars == <<mediaVars, fileVars>>
storeVars == <<vars, checkpointVars, audioVars, listVars, limitVars, streamVars, part>>

StoresInit ==
  /\ part \in {"transfer", "checkpoint", "audio", "recorder", "usage", "firewall",
               "dns", "rate", "media", "files"}
  /\ Init /\ CheckpointInit /\ AudioInit /\ RecorderInit /\ UsageInit /\ FirewallInit /\ DNSInit
  /\ RateInit /\ (part # "rate" => since = 0)
  /\ MediaInit /\ (part # "media" => output["desktop"] = Even /\ output["gaming"] = Short)
  /\ FilesInit

StoresNext ==
  /\ \/ part = "transfer" /\ Next
        /\ UNCHANGED <<checkpointVars, audioVars, listVars, limitVars, streamVars>>
     \/ part = "checkpoint" /\ CheckpointNext
        /\ UNCHANGED <<vars, audioVars, listVars, limitVars, streamVars>>
     \/ part = "audio" /\ AudioNext
        /\ UNCHANGED <<vars, checkpointVars, listVars, limitVars, streamVars>>
     \/ part = "recorder" /\ RecorderNext
        /\ UNCHANGED <<vars, checkpointVars, audioVars, usageVars, firewallVars, limitVars, streamVars>>
     \/ part = "usage" /\ UsageNext
        /\ UNCHANGED <<vars, checkpointVars, audioVars, recorderVars, firewallVars, limitVars, streamVars>>
     \/ part = "firewall" /\ FirewallNext
        /\ UNCHANGED <<vars, checkpointVars, audioVars, recorderVars, usageVars, limitVars, streamVars>>
     \/ part = "dns" /\ DNSNext
        /\ UNCHANGED <<vars, checkpointVars, audioVars, listVars, rateVars, streamVars>>
     \/ part = "rate" /\ RateNext
        /\ UNCHANGED <<vars, checkpointVars, audioVars, listVars, dnsVars, streamVars>>
     \/ part = "media" /\ MediaNext
        /\ UNCHANGED <<vars, checkpointVars, audioVars, listVars, limitVars, fileVars>>
     \/ part = "files" /\ FilesNext
        /\ UNCHANGED <<vars, checkpointVars, audioVars, listVars, limitVars, mediaVars>>
  /\ UNCHANGED part

StoresSpec == StoresInit /\ [][StoresNext]_storeVars
=============================================================================
