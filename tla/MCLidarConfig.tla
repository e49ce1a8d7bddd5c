---------------------------- MODULE MCLidarConfig ----------------------------
(***************************************************************************)
(* A lidar of the configuration file with two settings, as in              *)
(* config/MID360_config.json, and two lidars that are not in the file, of  *)
(* which the table of two entries has room for one.                        *)
(***************************************************************************)
EXTENDS LidarConfig
MCUserConfig == [front |-> {"DataType", "ScanPattern"}]
MCMaxInfo == [front |-> 2, other |-> 2, late |-> 1]
=============================================================================
