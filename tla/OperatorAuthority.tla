------------------------- MODULE OperatorAuthority -------------------------
(***************************************************************************)
(* The authority a command is run with (operator-authority.ts,             *)
(* authority-file-reader.ts, runOperatorCli).  The caller presents the     *)
(* digest of a pins file; the pins name a bundle, the bundle may name the  *)
(* receipt a verb is admitted by, each by path and digest.  The operator   *)
(* may replace each of the files, in place or by a rename, at any moment,  *)
(* and revokes a bundle by the pins: by raising the floor of generations   *)
(* or by listing it.  A caller may instead present the digest of the       *)
(* receipt itself, which no bundle then stands behind.                     *)
(*                                                                         *)
(* A digest is the content it is taken of.  A file is read at one moment:  *)
(* the reader refuses a file that changed under it.                        *)
(***************************************************************************)
EXTENDS Naturals

CONSTANTS MaxGeneration, MaxReceipt, MaxTime, MaxWrites   \* bounds

VARIABLES
    time,
    pins, bundle, receipt,  \* the files: <<content>>, or <<>> while one is rewritten in place
    ban,      \* what the operator has revoked so far: [floor, bundles]
    told,     \* the pins whose digest the caller has: none or one
    cmd,      \* the command in flight
    writes

vars == <<time, pins, bundle, receipt, ban, told, cmd, writes>>

Bans(p, b) == b.generation < p.floor \/ b \in p.bundles

Idle == [at |-> "idle"]

-----------------------------------------------------------------------------
(* The operator.                                                            *)

Writes == writes < MaxWrites /\ writes' = writes + 1 /\ UNCHANGED <<time, told, cmd>>

WriteReceipt ==
    /\ Writes
    /\ \E n \in 1..MaxReceipt : receipt' = <<n>>
    /\ UNCHANGED <<pins, bundle, ban>>

(* A bundle may leave the receipt to the caller.                            *)
WriteBundle ==
    /\ Writes
    /\ \E generation \in 1..MaxGeneration, active, named \in BOOLEAN, until \in 1..MaxTime :
          bundle' = <<[generation |-> generation, active |-> active, until |-> until,
                       receipt |-> IF named THEN receipt ELSE <<>>]>>
    /\ UNCHANGED <<pins, receipt, ban>>

(* Revocations are never taken back.                                        *)
WritePins ==
    /\ Writes /\ bundle # <<>>
    /\ \E floor \in ban.floor..MaxGeneration, more \in SUBSET {bundle[1]} :
          /\ ban' = [floor |-> floor, bundles |-> ban.bundles \cup more]
          /\ pins' = <<[bundle |-> bundle[1], floor |-> floor, bundles |-> ban'.bundles]>>
    /\ UNCHANGED <<bundle, receipt>>

RewriteInPlace ==
    /\ Writes
    /\ \/ pins' = <<>> /\ UNCHANGED <<bundle, receipt>>
       \/ bundle' = <<>> /\ UNCHANGED <<pins, receipt>>
       \/ receipt' = <<>> /\ UNCHANGED <<pins, bundle>>
    /\ UNCHANGED ban

Tell ==
    /\ pins # <<>> /\ told' = pins
    /\ UNCHANGED <<time, pins, bundle, receipt, ban, cmd, writes>>

Tick ==
    /\ time < MaxTime /\ time' = time + 1
    /\ UNCHANGED <<pins, bundle, receipt, ban, told, cmd, writes>>

-----------------------------------------------------------------------------
(* The command: with the pins or without them, with a digest of the         *)
(* receipt or without.  The clock is read once, before the first file.      *)

Begin ==
    /\ cmd = Idle
    /\ \E pinned \in {<<>>, told}, flag \in {<<>>} \cup {<<n>> : n \in 1..MaxReceipt} :
          cmd' = [at |-> IF pinned = <<>> THEN "receipt" ELSE "pins", now |-> time,
                  pinned |-> pinned, flag |-> flag, ban |-> ban, used |-> <<>>]
    /\ UNCHANGED <<time, pins, bundle, receipt, ban, told, writes>>

(* readAuthorityFile: the bytes that were read have the digest expected, or *)
(* the command ends.                                                        *)
Reads(file, expected, next) ==
    /\ cmd' = IF expected # <<>> /\ file = expected THEN next ELSE Idle
    /\ UNCHANGED <<time, pins, bundle, receipt, ban, told, writes>>

ReadPins == cmd.at = "pins" /\ Reads(pins, cmd.pinned, [cmd EXCEPT !.at = "bundle"])

Admits(p, now) ==
    /\ p.bundle.generation >= p.floor
    /\ p.bundle.active /\ p.bundle \notin p.bundles
    /\ now < p.bundle.until

ReadBundle ==
    /\ cmd.at = "bundle"
    /\ Reads(bundle, <<cmd.pinned[1].bundle>>,
             IF Admits(cmd.pinned[1], cmd.now) THEN [cmd EXCEPT !.at = "receipt"] ELSE Idle)

Injected == IF cmd.pinned = <<>> THEN <<>> ELSE cmd.pinned[1].bundle.receipt

(* suppliedAuthority: two sources for one authority are refused.            *)
Supplied ==
    IF cmd.flag = <<>> THEN Injected
    ELSE IF Injected = <<>> THEN cmd.flag ELSE <<>>

ReadReceipt ==
    /\ cmd.at = "receipt"
    /\ Reads(receipt, Supplied, [cmd EXCEPT !.at = "granted", !.used = receipt])

Done == cmd.at = "granted" /\ Reads(<<>>, <<>>, Idle)

AuthorityInit ==
    /\ time = 0 /\ writes = 0
    /\ pins = <<>> /\ bundle = <<>> /\ receipt = <<>> /\ told = <<>>
    /\ ban = [floor |-> 1, bundles |-> {}]
    /\ cmd = Idle

AuthorityNext ==
    \/ WriteReceipt \/ WriteBundle \/ WritePins \/ RewriteInPlace \/ Tell \/ Tick
    \/ Begin \/ ReadPins \/ ReadBundle \/ ReadReceipt \/ Done

AuthoritySpec == AuthorityInit /\ [][AuthorityNext]_vars

-----------------------------------------------------------------------------
(* A command that was given the pins acts on a bundle nobody had revoked    *)
(* when it began, inside its window, whatever was rotated or rewritten      *)
(* while it read; and on the receipt that bundle names, whichever the       *)
(* caller would have it use.                                                *)
GrantIsCurrent ==
    \A p \in IF cmd.at = "granted" /\ cmd.pinned # <<>> THEN {cmd.pinned[1]} ELSE {} :
      /\ ~Bans(cmd.ban, p.bundle)
      /\ p.bundle.active /\ cmd.now < p.bundle.until
      /\ p.bundle.receipt # <<>> => cmd.used = p.bundle.receipt
=============================================================================
