---- MODULE MCDaemons ----
EXTENDS Daemons, TLC

====
