------------------------------- MODULE MCCaps -------------------------------
(* Instances of Caps for TLC.                                              *)
EXTENDS Caps

(* Slots: few for the root, fewer for the others.                         *)
Small == {<<0, 0>>, <<0, 1>>, <<0, 2>>, <<1, 0>>, <<1, 1>>}
Even  == {<<0, 0>>, <<0, 1>>, <<1, 0>>, <<1, 1>>}

(* The root holds a supervisor capability and all time of a hart: of the   *)
(* only one, or of hart 2, that of hart 1 being deleted ...                *)
TimeBoot(h) == 0 :> cap_mk_supervisor(0, 2, 0) @@ 1 :> cap_mk_time(h, 0, NQuantum, 0)
OneHart     == TimeBoot(1)
SecondHart  == TimeBoot(2)
(* ... or all channels.                                                    *)
ChannelBoot == 0 :> cap_mk_supervisor(0, 2, 0)
                 @@ 1 :> cap_mk_channels(0, NChannels, 0)

Ranges(N) == {r \in (0 .. N) \X (0 .. N) : r[1] < r[2]}
TimeWords == {cap_mk_time(h, r[1], r[2], r[1]) : h \in HartIds, r \in Ranges(NQuantum)}
PidWords  == {cap_mk_supervisor(r[1], r[2], r[1]) : r \in Ranges(Cardinality(Procs))}
TimeAndPidWords == TimeWords \union PidWords
(* Channel 0 is used in all four ways, the others by a receiver only.      *)
ChannelWords ==
  {cap_mk_channels(r[1], r[2], r[1]) : r \in Ranges(NChannels)}
    \union {cap_mk_end(t, 0, 0) : t \in Endpoints}
    \union {cap_mk_end("receiver", ch, 0) : ch \in Channels}
=============================================================================
