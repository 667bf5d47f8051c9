---------------------------- MODULE MCRemoteLink ----------------------------
EXTENDS RemoteLink

\* On TCP every kind of command; on a serial line neither no-ack mode, which
\* is for reliable transports, nor kill and the empty packet, which are not
\* answered.
TcpKinds    == {"query", "resume", "noack", "failing", "kill", "empty"}
SerialKinds == {"query", "resume", "failing"}
=============================================================================
