------------------------------- MODULE DiscDrive -------------------------------
(***************************************************************************)
(* The drive the game believes it talks to: it accepts one command, and    *)
(* reports its end once, after a read has delivered the block asked for    *)
(* from the disc in the drive.  A stopped motor lets the player change the *)
(* disc, which the drive reports with an interrupt of its own.             *)
(***************************************************************************)
CONSTANTS
    DriveCommand,   \* the commands
    Reads(_),       \* is the command a read?
    Stops(_),       \* does it stop the motor?
    Block(_, _),    \* Block(d, c): what the read c delivers from disc d
    DriveDisc,      \* the discs
    Nothing         \* delivered by the other commands

VARIABLES phase, command, delivered, loaded

dvars == <<phase, command, delivered, loaded>>

DInit == phase = "idle" /\ delivered = Nothing /\ loaded \in DriveDisc

Ask ==
    /\ phase = "idle" /\ phase' = "busy"
    /\ command' \in DriveCommand
    /\ UNCHANGED <<delivered, loaded>>

\* The player puts in a disc, perhaps the same.
ChangeDisc ==
    /\ phase = "busy" /\ Stops(command)
    /\ loaded' \in DriveDisc
    /\ UNCHANGED <<phase, command, delivered>>

Report ==
    /\ phase = "busy" /\ phase' = "done"
    /\ delivered' = IF Reads(command) THEN Block(loaded, command) ELSE Nothing
    /\ UNCHANGED <<command, loaded>>

Acknowledge ==
    /\ phase = "done" /\ phase' = IF Stops(command) THEN "open" ELSE "idle"
    /\ delivered' = Nothing
    /\ UNCHANGED <<command, loaded>>

CoverCloses ==
    /\ phase = "open" /\ phase' = "closed"
    /\ UNCHANGED <<command, delivered, loaded>>

AcknowledgeCover ==
    /\ phase = "closed" /\ phase' = "idle"
    /\ UNCHANGED <<command, delivered, loaded>>

DNext == Ask \/ ChangeDisc \/ Report \/ Acknowledge \/ CoverCloses \/ AcknowledgeCover

DSpec == DInit /\ [][DNext]_dvars
=============================================================================
