---------------------------- MODULE UOP_RxBursts -----------------------------
(***************************************************************************)
(* The receive side with an observer on the wire, who does not know of     *)
(* LastIncomeTime: it tells the bursts of bytes apart by the silence       *)
(* before each offer of the stream, one that the full buffer refuses       *)
(* included, and counts what the buffer has taken of the burst that runs.  *)
(***************************************************************************)
EXTENDS UOP_AdapterRx

VARIABLES
    silence,              \* ms since the stream last offered a byte
    fresh                 \* bytes of the running burst that were taken

burstVars == <<vars, silence, fresh>>

BurstInit ==
    /\ Init
    /\ silence = Horizon
    /\ fresh = 0

(* The stream offers bytes, n are taken.  A longer silence than the delay  *)
(* begins a burst; more than the buffer holds need not be counted.         *)
Offers(n) ==
    /\ silence' = 0
    /\ fresh' = IF silence > IncomePacketDelay THEN n
                ELSE Smaller(fresh + n, size_max)

TakenWrite == StreamStep /\ Offers(size' - Kept(size))

(* Both functions Write leave at once when the buffer is full.             *)
RefusedWrite ==
    /\ StreamSide /\ IncomeBufferIsFull
    /\ Offers(0)
    /\ UNCHANGED vars

BurstApplication == ApplicationStep /\ UNCHANGED <<silence, fresh>>

(* The clock of the adapter may stand at its bound while silence grows.    *)
Still ==
    /\ pc # "undefined"
    /\ sinceIn = Horizon
    /\ Waiting => waited = TimeoutDelay

BurstTick ==
    /\ Tick \/ (Still /\ UNCHANGED vars)
    /\ silence' = Smaller(silence + 1, Horizon)
    /\ UNCHANGED fresh

BurstNext == TakenWrite \/ RefusedWrite \/ BurstApplication \/ BurstTick

BurstSpec == BurstInit /\ [][BurstNext]_burstVars

(* The same where the stream stays within the buffer between two flushes.  *)
TakenWriteInTurn == StreamStepInTurn /\ Offers(size' - Kept(size))

BurstInTurnSpec ==
    BurstInit
    /\ [][TakenWriteInTurn \/ RefusedWrite \/ BurstApplication \/ BurstTick]_burstVars

-----------------------------------------------------------------------------
(* In packet mode a read never gets bytes of two packets: what the buffer  *)
(* counts as held is all of the burst that runs or, as long as none of     *)
(* that was taken, all of earlier ones.  It has to hold also when the      *)
(* first bytes of the burst were refused, when LastIncomeTime is older     *)
(* than the last byte of the wire, and when a read left some bytes.        *)
OneBurst == PacketMode => fresh = 0 \/ size <= fresh

=============================================================================
