-------------------------- MODULE RmcatCcfsReceiver --------------------------
(***************************************************************************)
(* The receiver of CCFS (RmcatCcfsReceiver of                              *)
(* model/apps/rmcat-ccfs-receiver.{h,cc}, a subclass of RmcatReceiver): it *)
(* notes every packet in a header and sends that header once in FbPeriod,  *)
(* empty or not, then cleans it.  The first packet ever received starts    *)
(* its clock and its timer.                                                *)
(*                                                                         *)
(* The base class keeps its own header and timer; nothing is ever added to *)
(* that header, so its timer never sends, and both are left out.  So is    *)
(* its m_running, all that StartApplication sets, because RecvPacket does  *)
(* not ask for it: packets are taken before the start and after the stop.  *)
(***************************************************************************)
EXTENDS RfbHeader

CONSTANTS
    FbPeriod,      \* m_fbPeriodMs
    RxUsPerMs      \* 1000

ASSUME CcfsReceiverAssumption ==
    /\ FbPeriod \in Nat \ {0}
    /\ RxUsPerMs \in Nat \ {0}

VARIABLES
    waiting,     \* m_waiting, for the packet that tells the sender's address
    remoteSsrc,  \* m_remoteSsrc
    refPoint,    \* m_refPointUs, 0 before the first packet
    fbHeader,    \* m_fbHeader
    fbEvent,     \* the time m_fbEvent is due, or Never
    headerFault  \* an assert of the receiver or of RfbHeader has failed

rxVars == <<waiting, remoteSsrc, refPoint, fbHeader, fbEvent, headerFault>>

Never == -1

RxTypeOK ==
    /\ waiting \in BOOLEAN
    /\ refPoint \in Nat
    /\ fbEvent \in Nat \cup {Never}
    /\ headerFault \in BOOLEAN
    /\ DOMAIN fbHeader = {"blocks", "length", "reportTime", "monitored"}
    /\ \A ssrc \in DOMAIN fbHeader.blocks :
        \A seq \in DOMAIN fbHeader.blocks[ssrc] :
            /\ seq \in Sequences16
            /\ fbHeader.blocks[ssrc][seq] \in [ts : Nat, ecn : 0 .. 3]

RxInit ==
    /\ waiting = TRUE
    /\ remoteSsrc = "none"
    /\ refPoint = 0
    /\ fbHeader = EmptyRfb
    /\ fbEvent = Never
    /\ headerFault = FALSE

\* (Mutant: only the current time is converted to milliseconds.)
ElapsedMsMixed(now, ref) == (now \div RxUsPerMs) - ref

\* GetCurrElapsedTimeMs
ElapsedMs(now, ref) == (now - ref) \div RxUsPerMs

\* Nothing to do before the first packet.  m_refPointUs is kept: no later
\* packet starts the timer again.
StopApplication ==
    /\ fbEvent # Never
    /\ waiting' = TRUE
    /\ fbEvent' = Never
    /\ UNCHANGED <<remoteSsrc, refPoint, fbHeader, headerFault>>

RecvPacket(now, ssrc, seq) ==
    LET first  == refPoint = 0
        source == IF waiting THEN ssrc ELSE remoteSsrc
    IN  /\ refPoint' = IF first THEN now ELSE refPoint
        /\ fbEvent' = IF first THEN now + FbPeriod * RxUsPerMs ELSE fbEvent
        /\ waiting' = FALSE
        /\ remoteSsrc' = source
        /\ headerFault' = (source # ssrc)
        /\ fbHeader' = AddFeedback(fbHeader, source, seq, ElapsedMs(now, refPoint'), 0)

\* What the timer hands to the socket.
Stamped(now) == SetTimes(fbHeader, ElapsedMs(now, refPoint), FbPeriod)

FbTimerHandler(now) ==
    /\ fbEvent = now
    /\ fbEvent' = now + FbPeriod * RxUsPerMs
    /\ fbHeader' = CleanReportBlocks(Stamped(now))
    /\ headerFault' = ~Serializable(Stamped(now))
    /\ UNCHANGED <<waiting, remoteSsrc, refPoint>>
=============================================================================
