------------------------------ MODULE MCRawHid ------------------------------
(***************************************************************************)
(* The raw HID driver for TLC: the host configures the device again and    *)
(* again, and halts and clears the endpoint of the replies.                *)
(***************************************************************************)
EXTENDS RawHid

MCControls == {Configure(1), <<"SET_FEATURE", TX>>, <<"CLEAR_FEATURE", TX>>}
=============================================================================
