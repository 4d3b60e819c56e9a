-------------------------- MODULE MCRenderHandshake --------------------------
EXTENDS RenderHandshake
=============================================================================
