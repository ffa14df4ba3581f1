---------------------------- MODULE MCMcpServer ----------------------------
(* McpServer, with every kind of request or with the tool calls only.       *)
EXTENDS McpServer

ToolKinds == RequestKinds \ {"none", "method"}
=============================================================================
