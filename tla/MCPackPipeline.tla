---- MODULE MCPackPipeline ----
EXTENDS PackPipeline

MCPackers == <<"lzss-h4", "shrinkler">>
====
