---------------------------- MODULE MdnsResponder ----------------------------
(***************************************************************************)
(* The mDNS responder: probing for the host name, tiebreaking, conflicts   *)
(* and announcing (LEAmDNS.cpp, LEAmDNS_Control.cpp), for several boards   *)
(* on one link.                                                            *)
(*                                                                         *)
(* A board wants to be known by a name that is unique on the link.  It     *)
(* sends three probes, PROBE_DELAY apart; a board that has the name        *)
(* answers, one that probes for it too lets the higher address win, and    *)
(* who loses calls the sketch, which takes another name.  Without an       *)
(* objection the name is its own, and it announces it.                     *)
(*                                                                         *)
(* update() runs in the sketch; messages are handled in SYS (_process()).  *)
(* Time is counted in ticks, a part of PROBE_DELAY.  The sketch calls      *)
(* update() and the link delivers messages at least once in a tick, in any *)
(* order.                                                                  *)
(***************************************************************************)
EXTENDS Integers, Sequences, FiniteSets

CONSTANTS
    MdnsHosts,        \* the boards; a board is its address, a number
    MdnsNames,        \* the number of names; the sketch takes the next one
    MDNS_PROBE_COUNT,
    MDNS_PROBE_DELAY,
    MDNS_ANNOUNCE_COUNT,
    MDNS_ANNOUNCE_DELAY,
    MdnsMaxRestarts,  \* bound: changes of an interface
    MdnsLateRename    \* does the sketch call setHostname() also after announcements

ASSUME MdnsAssumption ==
    /\ MdnsHosts \subseteq Nat
    /\ MdnsNames \in Nat \ {0}
    /\ MDNS_PROBE_COUNT \in Nat \ {0} /\ MDNS_PROBE_DELAY \in Nat \ {0}
    /\ MDNS_ANNOUNCE_COUNT \in Nat /\ MDNS_ANNOUNCE_DELAY \in Nat \ {0}
    /\ MdnsMaxRestarts \in Nat /\ MdnsLateRename \in BOOLEAN

MdnsNever == -1   \* m_Timeout.resetToNeverExpires()

VARIABLES
    mdns,         \* [MdnsHosts -> m_HostProbeInformation and the host name]
    mdnsNet,      \* messages under way
    mdnsRestarts  \* number of interface changes so far

mdnsVars == <<mdns, mdnsNet, mdnsRestarts>>

(* stcProbeInformation::clear() *)
MdnsClear(x) ==
    [x EXCEPT !.status = "WaitingForData", !.sent = 0, !.timeout = MdnsNever]

(* _resetProbeStatus(true), of begin() and of a restart.                   *)
MdnsReset(x) == [MdnsClear(x) EXCEPT !.status = "ReadyToStart"]

(* begin(): every board first wants the first name.  A board may be        *)
(* switched on later than others.                                          *)
MdnsInit ==
    /\ mdns = [h \in MdnsHosts |-> [status |-> "WaitingForData", sent |-> 0,
                                    timeout |-> MdnsNever, name |-> 0, restarting |-> FALSE]]
    /\ mdnsNet = {}
    /\ mdnsRestarts = 0

MdnsBegin(h) ==
    /\ mdns[h].name = 0
    /\ mdns' = [mdns EXCEPT ![h] = [MdnsReset(@) EXCEPT !.name = 1]]
    /\ UNCHANGED <<mdnsNet, mdnsRestarts>>

-----------------------------------------------------------------------------
(* Messages: a probe (query with our own address as known answer), or a    *)
(* response that says that the name is from's.                             *)

MdnsMsg(kind, name, from, to) == [kind |-> kind, name |-> name, from |-> from, to |-> to]

(* _sendMDNSMessage_Multicast() *)
MdnsMulticast(kind, h) ==
    {MdnsMsg(kind, mdns[h].name, h, other) : other \in MdnsHosts \ {h}}

(* setHostname(): only the status is set.                                  *)
MdnsSetHostname(x, name) == [x EXCEPT !.name = name, !.status = "ReadyToStart"]

(* The callback is not called.                                             *)
MdnsCancelProbing_Silent(x) == MdnsClear(x)

(* _cancelProbingForHost(): the sketch's callback takes the next name, as  *)
(* MDNSResponder::indexDomain() makes it.                                  *)
MdnsCancelProbing(x) ==
    LET c == MdnsClear(x)
    IN  IF x.name < MdnsNames THEN MdnsSetHostname(c, x.name + 1) ELSE c

-----------------------------------------------------------------------------
(* The sketch                                                              *)

(* _updateProbeStatus(), when probing starts: the first delay is random.   *)
MdnsStart(h) ==
    /\ mdns[h].status = "ReadyToStart"
    /\ \E t \in 0..(MDNS_PROBE_DELAY - 1) :
         mdns' = [mdns EXCEPT ![h] = [@ EXCEPT !.status = "InProgress", !.timeout = t]]
    /\ UNCHANGED <<mdnsNet, mdnsRestarts>>

(* _updateProbeStatus(), the next probe.                                   *)
MdnsProbe(h) ==
    /\ mdns[h].status = "InProgress" /\ mdns[h].timeout = 0
    /\ mdns[h].sent < MDNS_PROBE_COUNT
    /\ mdnsNet' = mdnsNet \cup MdnsMulticast("probe", h)
    /\ mdns' = [mdns EXCEPT ![h] = [@ EXCEPT !.timeout = MDNS_PROBE_DELAY,
                                             !.sent = mdns[h].sent + 1]]
    /\ UNCHANGED mdnsRestarts

(* _updateProbeStatus(), all probes are sent: the name is ours.            *)
MdnsDone(h) ==
    /\ mdns[h].status = "InProgress" /\ mdns[h].timeout = 0
    /\ mdns[h].sent >= MDNS_PROBE_COUNT
    /\ mdns' = [mdns EXCEPT ![h] = [@ EXCEPT !.status = "Done", !.sent = 0,
                                             !.timeout = MDNS_ANNOUNCE_DELAY]]
    /\ UNCHANGED <<mdnsNet, mdnsRestarts>>

(* _updateProbeStatus(), an announcement.                                  *)
MdnsAnnounce(h) ==
    /\ mdns[h].status = "Done" /\ mdns[h].timeout = 0
    /\ mdnsNet' = mdnsNet \cup MdnsMulticast("response", h)
    /\ mdns' = [mdns EXCEPT ![h] =
         [@ EXCEPT !.sent = mdns[h].sent + 1,
                   !.timeout = IF MDNS_ANNOUNCE_COUNT > mdns[h].sent + 1
                               THEN MDNS_ANNOUNCE_DELAY ELSE MdnsNever]]
    /\ UNCHANGED mdnsRestarts

MdnsUpdate(h) == MdnsStart(h) \/ MdnsProbe(h) \/ MdnsDone(h) \/ MdnsAnnounce(h)

(* The sketch changes the name of a board that has one: always before the  *)
(* first announcement, with MdnsLateRename later too.  It changes the      *)
(* first name only (bound).                                                *)
MdnsRename(h) ==
    /\ MdnsLateRename \/ mdns[h].sent = 0
    /\ mdns[h].status = "Done" /\ mdns[h].name = 1
    /\ mdns' = [mdns EXCEPT ![h] = MdnsSetHostname(@, mdns[h].name + 1)]
    /\ UNCHANGED <<mdnsNet, mdnsRestarts>>

(* The callback at LwipIntf::statusChangeCB(), and the function it         *)
(* schedules: _restart().                                                  *)
MdnsStatusChange(h) ==
    /\ mdns[h].name # 0 /\ ~mdns[h].restarting
    /\ mdnsRestarts < MdnsMaxRestarts
    /\ mdnsRestarts' = mdnsRestarts + 1
    /\ mdns' = [mdns EXCEPT ![h].restarting = TRUE]
    /\ UNCHANGED mdnsNet

MdnsRestart(h) ==
    /\ mdns[h].restarting
    /\ mdns' = [mdns EXCEPT ![h] = [MdnsReset(@) EXCEPT !.restarting = FALSE]]
    /\ UNCHANGED <<mdnsNet, mdnsRestarts>>

-----------------------------------------------------------------------------
(* SYS: a message arrives.                                                 *)

(* Nobody answers for the name that is its own.                            *)
MdnsParseQuery_Silent(m) ==
    LET x == mdns[m.to] IN
    /\ m.kind = "probe"
    /\ mdns' = IF x.status = "InProgress" /\ x.name = m.name /\ m.from > m.to
               THEN [mdns EXCEPT ![m.to] = MdnsCancelProbing(x)]
               ELSE mdns
    /\ mdnsNet' = mdnsNet \ {m}

(* _parseQuery(): answer for our name when it is ours, tiebreak while we   *)
(* probe for it.                                                           *)
MdnsParseQuery(m) ==
    LET x == mdns[m.to] IN
    /\ m.kind = "probe"
    /\ mdns' = IF x.status = "InProgress" /\ x.name = m.name /\ m.from > m.to
               THEN [mdns EXCEPT ![m.to] = MdnsCancelProbing(x)]
               ELSE mdns
    /\ mdnsNet' = (mdnsNet \ {m}) \cup
                  (IF x.status = "Done" /\ x.name = m.name
                   THEN {MdnsMsg("response", x.name, m.to, m.from)} ELSE {})

(* _parseResponse() and _processAnswers(): somebody has the name we probe  *)
(* for; a response is only looked at when a probe has been sent.           *)
MdnsParseResponse(m) ==
    LET x == mdns[m.to] IN
    /\ m.kind = "response"
    /\ mdns' = IF x.status = "InProgress" /\ x.sent > 0 /\ x.name = m.name
               THEN [mdns EXCEPT ![m.to] = MdnsCancelProbing(x)]
               ELSE mdns
    /\ mdnsNet' = mdnsNet \ {m}

MdnsReceive(m) ==
    /\ MdnsParseQuery(m) \/ MdnsParseResponse(m)
    /\ UNCHANGED mdnsRestarts

-----------------------------------------------------------------------------
(* A tick: nothing that is due is left.                                    *)
MdnsTick ==
    /\ mdnsNet = {}
    /\ \A h \in MdnsHosts : /\ mdns[h].status # "ReadyToStart"
                            /\ mdns[h].timeout # 0
                            /\ ~mdns[h].restarting
    /\ \E h \in MdnsHosts : mdns[h].timeout > 0
    /\ mdns' = [h \in MdnsHosts |->
                  [mdns[h] EXCEPT !.timeout = IF @ > 0 THEN @ - 1 ELSE @]]
    /\ UNCHANGED <<mdnsNet, mdnsRestarts>>

MdnsNext ==
    \/ \E h \in MdnsHosts :
         \/ MdnsBegin(h)
         \/ MdnsStart(h)
         \/ MdnsProbe(h)
         \/ MdnsDone(h)
         \/ MdnsAnnounce(h)
         \/ MdnsRename(h)
         \/ MdnsStatusChange(h)
         \/ MdnsRestart(h)
    \/ \E m \in mdnsNet : MdnsReceive(m)
    \/ MdnsTick

(* update() is called in every loop(), scheduled functions run, messages   *)
(* arrive, time passes.                                                    *)
MdnsFairness ==
    /\ \A h \in MdnsHosts : WF_mdnsVars(MdnsUpdate(h)) /\ WF_mdnsVars(MdnsRestart(h))
    /\ WF_mdnsVars(\E m \in mdnsNet : MdnsReceive(m))
    /\ WF_mdnsVars(MdnsTick)

MdnsSpec == MdnsInit /\ [][MdnsNext]_mdnsVars /\ MdnsFairness

-----------------------------------------------------------------------------
(* Properties                                                              *)

(* Two boards never both hold the same name, whenever they are switched    *)
(* on, restart, tie or lose (_updateProbeStatus(), _parseQuery(),          *)
(* _processAnswers()).                                                     *)
MdnsUnique ==
    \A g, h \in MdnsHosts :
       g # h /\ mdns[g].status = "Done" /\ mdns[h].status = "Done"
         => mdns[g].name # mdns[h].name

(* Every board that is switched on ends up with a name: of two boards that *)
(* probe for the same name one wins, a loser tries another one, a restart  *)
(* or a tie leaves nobody waiting, and retries come to an end              *)
(* (_updateProbeStatus(), _cancelProbingForHost()).                        *)
MdnsSettles ==
    <>[](\A h \in MdnsHosts : mdns[h].name # 0 => mdns[h].status = "Done")
=============================================================================
