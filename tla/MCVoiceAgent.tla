---------------------------- MODULE MCVoiceAgent ----------------------------
EXTENDS VoiceAgent
=============================================================================
